---- MODULE Spec2Model ----
(***************************************************************************)
(* Scopus extraction pipeline of pybibliometric_analysis: run_extract, its *)
(* strategy selection, the retry wrapper retry_scopus_search and its error *)
(* classification, and the raw-table / manifest / pybliometrics.cfg files  *)
(* the run leaves behind.                                                  *)
(*                                                                         *)
(* The program is single-threaded: one top-level call is active at a time  *)
(* (pc = "idle" between calls) and the files persist from call to call.    *)
(***************************************************************************)
EXTENDS Integers, Sequences, FiniteSets, TLC

VARIABLES
    raw_dir,          \* data/raw: file name -> <<>> (no such file) or <<frame>>
    manifest_file,    \* <<>> or <<manifest>>: outputs/methods/search_manifest_<run_id>.json
    cfg_file,         \* <<>> or <<cfg>>: <config_dir>/pybliometrics.cfg
    pc,               \* position of the running call, "idle" between calls
    entry,            \* the top-level function that was called last
    result,           \* outcome of the last finished top-level call
    raised_at,        \* position at which the last call raised, "" if it did not
    run_id,           \* the run identifier all calls of a behaviour are made for
    force_slicing, dry_run,                    \* arguments of run_extract
    config,           \* <<>> until load_search_config returned, then <<SearchConfig>>
    creds,            \* <<>> until the credential resolvers returned
    n_results,        \* local n_results, -1 while unassigned
    planned_strategy, \* local planned_strategy, "" while unassigned
    branch,           \* branch of the dispatch at lines 168-200 that was entered
    strategy,         \* local strategy, "" while unassigned
    records,          \* local records (a frame)
    raw_output,       \* local raw_output, <<>> while unassigned
    log,              \* records the logger emitted during the running call
    ret, download, subscriber, retries,        \* frame of retry_scopus_search
    attempt, last_error, rres,
    events,           \* history of the retry call: attempts and sleeps, in order
    remote_calls,     \* remote calls issued by the running top-level call
    raw_written,      \* the running call has written a raw table
    environ,          \* credential files and environment variables the resolvers read last
    sl,               \* frame of run_slicing
    hist,             \* what the running call has seen of its remote calls
    fa,               \* frame of run_full_scopus_csv_analysis
    js,               \* a manifest built, the JSON text written for it and its parse
    cl                \* data/processed, outputs/analysis and the frames of run_clean
                      \* and run_analyze

fsVars == <<raw_dir, manifest_file, cfg_file>>
runVars == <<force_slicing, dry_run, config, creds, n_results,
             planned_strategy, branch, strategy, records, raw_output, log>>
extVars == <<environ, sl, hist>>
modVars == <<fa, js, cl>>
retryVars == <<ret, download, subscriber, retries, attempt, last_error, rres, events>>
vars == <<raw_dir, manifest_file, cfg_file, pc, entry, result, raised_at, run_id,
          force_slicing, dry_run, config, creds, n_results,
          planned_strategy, branch, strategy, records, raw_output, log,
          ret, download, subscriber, retries, attempt, last_error, rres,
          events, remote_calls, raw_written, environ, sl, hist, fa, js, cl>>

(***************************************************************************)
(* Bounds of the model.                                                    *)
(***************************************************************************)
MaxRetries == 3
NSpread == 1
MaxRows == 3

(***************************************************************************)
(* Program constants.                                                      *)
(***************************************************************************)
threshold == 5000
DefaultRetries == 3
DefaultDelay == 2

(***************************************************************************)
(* Exceptions.  An exception is its class name, its status_code attribute  *)
(* (0: the object has no such attribute), its message and, for an instance *)
(* of a subclass of a pybliometrics exception class, that base class.      *)
(***************************************************************************)
Exc(name, status_code, message, base) ==
    [name |-> name, status_code |-> status_code, message |-> message, base |-> base]

NoExc == Exc("none", 0, "", "none")

LimitMessage == "Found 6000 matches. The query fails to return more than 5000 entries"

RemoteErrors ==
    { Exc("Scopus401Error", 0, "unauthorized", "none"),
      Exc("Scopus403Error", 0, "forbidden", "none"),
      Exc("Scopus429Error", 0, "quota exceeded", "none"),
      Exc("HTTPError", 401, "http error", "none"),
      Exc("HTTPError", 403, "http error", "none"),
      Exc("HTTPError", 429, "http error", "none"),
      Exc("HTTPError", 500, "http error", "none"),
      Exc("ConnectionError", 0, "connection reset", "none"),
      Exc("ScopusQueryError", 0, LimitMessage, "none"),
      Exc("CustomAuthError", 0, "unauthorized", "Scopus401Error"),
      Exc("CustomQuotaError", 0, "quota exceeded", "Scopus429Error") }

\* What the remote service raises: any of RemoteErrors to a direct caller of
\* retry_scopus_search, one error of each kind within run_extract.
Raises(caller) ==
    IF caller = "direct" THEN RemoteErrors
    ELSE { e \in RemoteErrors :
             e.name \in {"Scopus401Error", "ConnectionError", "ScopusQueryError"} }

\* The phrases of _is_query_limit_error that occur in str(exc).lower().
LimitPhrasesIn(message) ==
    IF message = LimitMessage
    THEN {"more than 5000", "5000 entries", "fails to return more than 5000"}
    ELSE {}

EveryErrorIsLimitError(exc) == TRUE

_is_query_limit_error(exc) ==
    \/ "more than 5000" \in LimitPhrasesIn(exc.message)
    \/ "5000 entries" \in LimitPhrasesIn(exc.message)
    \/ "fails to return more than 5000" \in LimitPhrasesIn(exc.message)

ActionableNames == {"Scopus401Error", "Scopus403Error", "Scopus429Error"}

actionable(name) ==
    CASE name = "Scopus401Error" ->
            "Unauthorized (401): SCOPUS_API_KEY is invalid or disabled."
      [] name = "Scopus403Error" ->
            "Forbidden (403): access requires INST_TOKEN or an institutional subscription."
      [] name = "Scopus429Error" ->
            "Rate limited: too many requests; reduce request rate or retry later."
      [] OTHER -> "Scopus API error."

\* f"Scopus{status_code}Error"
StatusKey(status_code) ==
    CASE status_code = 401 -> "Scopus401Error"
      [] status_code = 403 -> "Scopus403Error"
      [] status_code = 429 -> "Scopus429Error"
      [] OTHER -> "ScopusNNNError"

\* _raise_actionable_scopus_error: the message of the RuntimeError it raises
\* from exc, or "" when it returns without raising.
ActionableIgnoringStatus(exc) ==
    IF exc.name \in ActionableNames THEN actionable(exc.name)
    ELSE IF exc.base \in ActionableNames THEN actionable(exc.base)
    ELSE ""

_raise_actionable_scopus_error(exc) ==
    IF exc.name \in ActionableNames THEN actionable(exc.name)
    ELSE IF exc.status_code # 0 /\ exc.status_code \in {401, 403, 429}
         THEN actionable(StatusKey(exc.status_code))
    ELSE IF exc.base \in ActionableNames THEN actionable(exc.base)
    ELSE ""

RuntimeError(message) == Exc("RuntimeError", 0, message, "none")

\* an unauthorized or forbidden answer of the remote service
Permanent(e) ==
    \/ e.name \in {"Scopus401Error", "Scopus403Error"}
    \/ e.status_code \in {401, 403}

\* hist: how the cursor attempt of run_cursor_with_fallback ended ("" while it
\* has not, else "records", "empty" or "raised"), the remote calls made up to
\* then, and whether a remote call of the running call failed permanently
NoHist == [cursor |-> "", cursor_calls |-> 0, permanent |-> FALSE]

\* sl: the caller of run_slicing, its arguments (a year or max_years_back of 0
\* is None), the years still to fetch, covered_years and frames
NoSlicing ==
    [caller |-> "none", start_year |-> 0, end_year |-> 0, max_years_back |-> 0,
     subscriber |-> FALSE, years |-> <<>>, covered |-> <<>>, frames |-> <<>>,
     trace |-> <<>>]

\* what run_slicing has done so far: the retry-wrapped calls it issued and how
\* each ended, in order
Issued(year, kind) ==
    [year |-> year, kind |-> kind, phase |-> "issued", size |-> 0, rows |-> <<>>]

Completed(year, kind, status, size, rows) ==
    [year |-> year, kind |-> kind, phase |-> status, size |-> size, rows |-> rows]

(***************************************************************************)
(* The remote service.  A successful ScopusSearch(...) is a handle with    *)
(* the result size and, when download is set, the records; a record is its *)
(* eid, a frame the sequence of its rows.                                  *)
(***************************************************************************)
Frames == { <<>>, <<1, 2>> }

NValues == (threshold - NSpread)..(threshold + NSpread)

Handles(dl) ==
    IF dl THEN { [size |-> Len(f), results |-> f] : f \in Frames }
    ELSE { [size |-> n, results |-> <<>>] : n \in NValues }

NoHandle == [size |-> 0, results |-> <<>>]

\* the sizes a zero-download probe of one year may report, and the records
\* the fetch of one year may hold
YearSizes == {0, 2}
SliceFrames == { <<>>, <<1, 2>>, <<2, 3>> }

\* what ScopusSearch may return to the call made for `caller`
HandlesOf(caller, dl) ==
    IF caller = "precheck" THEN { [size |-> n, results |-> <<>>] : n \in YearSizes }
    ELSE IF caller = "slice" THEN { [size |-> Len(f), results |-> f] : f \in SliceFrames }
    ELSE Handles(dl)

\* one row per record, in the order of the records
to_frame(results) == [i \in 1..Len(results) |-> [eid |-> results[i]]]

NoResult == [status |-> "none", handle |-> NoHandle, exc |-> NoExc, cause |-> <<>>]
Returned(h) == [status |-> "returned", handle |-> h, exc |-> NoExc, cause |-> <<>>]
Raised(e, cause) == [status |-> "raised", handle |-> NoHandle, exc |-> e, cause |-> cause]

AttemptEvent(ok, e) == [kind |-> "attempt", ok |-> ok, exc |-> e, delay |-> 0]
SleepEvent(d) == [kind |-> "sleep", ok |-> FALSE, exc |-> NoExc, delay |-> d]

(***************************************************************************)
(* retry_scopus_search.                                                    *)
(***************************************************************************)
\* for attempt in range(retries)
LoopContinues(a, r) == a < r

\* after a failed attempt that is not actionable: sleep and go on, or re-raise
AlwaysSleep(a, r) == TRUE

SleepsBeforeNext(a, r) == a < r - 1

\* the frame of a call retry_scopus_search(..., download=dl, subscriber=sub, retries=r)
EnterRetry(caller, dl, sub, r) ==
    /\ ret' = caller
    /\ download' = dl
    /\ subscriber' = sub
    /\ retries' = r
    /\ attempt' = 0
    /\ last_error' = <<>>
    /\ rres' = NoResult
    /\ events' = <<>>
    /\ pc' = "rt_loop"


\* an attempt whose cls(query, ...) returns: the wrapper returns the handle
RetryAttemptOk ==
    /\ pc = "rt_loop"
    /\ LoopContinues(attempt, retries)
    /\ \E h \in HandlesOf(ret, download) :
          /\ rres' = Returned(h)
          /\ events' = Append(events, AttemptEvent(TRUE, NoExc))
    /\ remote_calls' = remote_calls + 1
    /\ pc' = "rt_done"
    /\ UNCHANGED <<fsVars, runVars, run_id, entry, result, raised_at, raw_written, extVars,
                   ret, download, subscriber, retries, attempt, last_error>>
    /\ UNCHANGED modVars

\* an attempt whose cls(query, ...) raises e: the except block
RetryAttemptFail ==
    /\ pc = "rt_loop"
    /\ LoopContinues(attempt, retries)
    /\ remote_calls' = remote_calls + 1
    /\ \E e \in Raises(ret) :
          /\ events' = Append(events, AttemptEvent(FALSE, e))
          /\ hist' = [hist EXCEPT !.permanent = @ \/ Permanent(e)]
          /\ IF _raise_actionable_scopus_error(e) # ""
             THEN /\ rres' = Raised(RuntimeError(_raise_actionable_scopus_error(e)), <<e>>)
                  /\ pc' = "rt_done"
                  /\ UNCHANGED last_error
             ELSE /\ last_error' = <<e>>
                  /\ IF SleepsBeforeNext(attempt, retries)
                     THEN /\ pc' = "rt_sleep"
                          /\ UNCHANGED rres
                     ELSE /\ rres' = Raised(e, <<>>)
                          /\ pc' = "rt_done"
    /\ UNCHANGED <<fsVars, runVars, run_id, entry, result, raised_at, raw_written, environ, sl,
                   ret, download, subscriber, retries, attempt>>
    /\ UNCHANGED modVars

\* time.sleep(delay), then the next iteration of the loop
RetrySleep ==
    /\ pc = "rt_sleep"
    /\ events' = Append(events, SleepEvent(DefaultDelay))
    /\ attempt' = attempt + 1
    /\ pc' = "rt_loop"
    /\ UNCHANGED <<fsVars, runVars, run_id, entry, result, raised_at, raw_written, extVars,
                   ret, download, subscriber, retries, last_error, rres, remote_calls>>
    /\ UNCHANGED modVars

\* the loop ends without return or raise: raise RuntimeError(...) from last_error
RetryFallthrough ==
    /\ pc = "rt_loop"
    /\ ~LoopContinues(attempt, retries)
    /\ rres' = Raised(RuntimeError("Scopus search failed"), last_error)
    /\ pc' = "rt_done"
    /\ UNCHANGED <<fsVars, runVars, run_id, entry, result, raised_at, raw_written, extVars,
                   ret, download, subscriber, retries, attempt, last_error, events,
                   remote_calls>>
    /\ UNCHANGED modVars

\* a caller other than run_extract calls retry_scopus_search
CallRetryDirect ==
    /\ pc = "idle"
    /\ \E r \in 0..MaxRetries, dl \in BOOLEAN, sub \in BOOLEAN :
          EnterRetry("direct", dl, sub, r)
    /\ entry' = "retry_scopus_search"
    /\ result' = NoResult
    /\ raised_at' = ""
    /\ remote_calls' = 0
    /\ raw_written' = FALSE
    /\ hist' = NoHist
    /\ UNCHANGED <<fsVars, runVars, run_id, environ, sl>>
    /\ UNCHANGED modVars

RetryDirectReturn ==
    /\ pc = "rt_done"
    /\ ret = "direct"
    /\ result' = rres
    /\ raised_at' = IF rres.status = "raised" THEN "rt_done" ELSE ""
    /\ pc' = "idle"
    /\ UNCHANGED <<fsVars, runVars, run_id, entry, retryVars, remote_calls, raw_written, extVars>>
    /\ UNCHANGED modVars

(***************************************************************************)
(* Paths.  A file name is the sequence of its dot-separated parts, so that *)
(* Path.suffix is the last part of a name of two or more parts and         *)
(* Path.with_suffix replaces that part, or adds one to a one-part name.    *)
(***************************************************************************)
RunIds == { <<"run1">>, <<"run2", "v1", "parquet">> }

Suffix(p) == IF Len(p) > 1 THEN p[Len(p)] ELSE ""

WithoutSuffix(p) == IF Len(p) > 1 THEN SubSeq(p, 1, Len(p) - 1) ELSE p

WithSuffix(p, s) == WithoutSuffix(p) \o <<s>>

\* build_paths: data/raw/scopus_search_<run_id>
RawPath(rid) == <<"scopus_search_" \o rid[1]>> \o Tail(rid)

RECURSIVE PathStr(_)
\* str(path)
PathStr(p) == IF Len(p) = 1 THEN p[1] ELSE p[1] \o "." \o PathStr(Tail(p))

_normalize_base_path(p) ==
    IF Suffix(p) \in {"parquet", "csv"} THEN WithoutSuffix(p) ELSE p

RawNames ==
    UNION { { WithSuffix(RawPath(r), "parquet"), WithSuffix(RawPath(r), "csv"),
              WithSuffix(_normalize_base_path(RawPath(r)), "parquet"),
              WithSuffix(_normalize_base_path(RawPath(r)), "csv") } : r \in RunIds }

Exists(dir, name) == dir[name] # <<>>

\* the condition of the existence check at the top of run_extract
RawExistsParquetOnly(dir, raw_path) == Exists(dir, WithSuffix(raw_path, "parquet"))

RawExists(dir, raw_path) ==
    \/ Exists(dir, WithSuffix(raw_path, "parquet"))
    \/ Exists(dir, WithSuffix(raw_path, "csv"))

(***************************************************************************)
(* io_utils.write_table(df, path_base, prefer_parquet).  parquet_support   *)
(* is what detect_parquet_support() answers; to_parquet is how             *)
(* df.to_parquet ends: "ok", "caught" (ImportError, ValueError or          *)
(* AttributeError) or "uncaught" (any other exception).  A write that      *)
(* raises leaves no file.                                                  *)
(***************************************************************************)
LogRec(msg, strs, n) == [msg |-> msg, strs |-> strs, n |-> n]

WriteTableLeavingPartialFile(dir, df, path_base, prefer_parquet, parquet_support, to_parquet) ==
    LET base == _normalize_base_path(path_base)
        csv_path == WithSuffix(base, "csv")
        parquet_path == WithSuffix(base, "parquet")
        out(d, p, f, r) == [dir |-> d, path |-> p, format |-> f, raised |-> r,
                            warnings |-> <<>>]
    IN  IF Suffix(path_base) = "csv" \/ ~prefer_parquet \/ ~parquet_support
        THEN out([dir EXCEPT ![csv_path] = <<df>>], csv_path, "csv", FALSE)
        ELSE IF to_parquet = "ok"
        THEN out([dir EXCEPT ![parquet_path] = <<df>>], parquet_path, "parquet", FALSE)
        ELSE IF to_parquet = "caught"
        THEN out([dir EXCEPT ![csv_path] = <<df>>], csv_path, "csv", FALSE)
        ELSE out([dir EXCEPT ![parquet_path] = <<df>>], <<>>, "", TRUE)

write_table(dir, df, path_base, prefer_parquet, parquet_support, to_parquet) ==
    LET forced_suffix == IF Suffix(path_base) \in {"parquet", "csv"}
                         THEN Suffix(path_base) ELSE ""
        base == _normalize_base_path(path_base)
        csv_path == WithSuffix(base, "csv")
        parquet_path == WithSuffix(base, "parquet")
        csv(w) == [dir |-> [dir EXCEPT ![csv_path] = <<df>>], path |-> csv_path,
                   format |-> "csv", raised |-> FALSE, warnings |-> w]
    IN  IF forced_suffix = "csv"
        THEN csv(<<>>)
        ELSE IF ~prefer_parquet \/ ~parquet_support
        THEN csv(<<LogRec("Parquet engine unavailable; wrote CSV instead: %s",
                          <<"csv">>, 0)>>)
        ELSE IF to_parquet = "ok"
        THEN [dir |-> [dir EXCEPT ![parquet_path] = <<df>>], path |-> parquet_path,
              format |-> "parquet", raised |-> FALSE, warnings |-> <<>>]
        ELSE IF to_parquet = "caught"
        THEN csv(<<LogRec("Parquet write failed (%s). Wrote CSV instead: %s",
                          <<"ValueError", "csv">>, 0)>>)
        ELSE [dir |-> dir, path |-> <<>>, format |-> "", raised |-> TRUE,
              warnings |-> <<>>]

\* _expected_raw_path(raw_base)
_expected_raw_path(raw_base, parquet_support) ==
    WithSuffix(raw_base, IF parquet_support THEN "parquet" ELSE "csv")

(***************************************************************************)
(* settings: the search config, the credential resolvers and               *)
(* pybliometrics.cfg.                                                      *)
(***************************************************************************)
Get(data, key, default) == IF key \in DOMAIN data THEN data[key] ELSE default

\* the documents yaml.safe_load may return for the config file
YamlDocs ==
    { [query |-> "TITLE-ABS-KEY(x)", database |-> "Scopus"] }
    \cup { [query |-> "TITLE-ABS-KEY(x)", database |-> "Scopus",
            use_cursor_preferred |-> c, subscriber_mode |-> s] :
              c \in BOOLEAN, s \in BOOLEAN }
    \cup { [query |-> "TITLE-ABS-KEY(x)", database |-> "Scopus",
            use_cursor_preferred |-> TRUE, subscriber_mode |-> TRUE,
            start_year |-> 2020, end_year |-> 2021] }

\* documents with and without the key `query`
QueryDocs ==
    { [database |-> "Scopus", notes |-> "no query"],
      [query |-> "TITLE-ABS-KEY(x)", database |-> "Scopus",
       use_cursor_preferred |-> TRUE, subscriber_mode |-> TRUE] }

\* load_search_config: the SearchConfig dataclass has exactly these fields
load_search_config(data) ==
    [ query |-> Get(data, "query", ""),
      database |-> Get(data, "database", ""),
      notes |-> Get(data, "notes", ""),
      use_cursor_preferred |-> Get(data, "use_cursor_preferred", FALSE),
      subscriber_mode |-> Get(data, "subscriber_mode", FALSE),
      start_year |-> Get(data, "start_year", 0),
      end_year |-> Get(data, "end_year", 0) ]

HasAttr(obj, name) == name \in DOMAIN obj

\* None and the empty string are the falsy values of an optional string
None == "None"
Truthy(v) == v # None /\ v # ""

(***************************************************************************)
(* Text.  A text is the sequence of its pieces: a blank " ", a "#" or a    *)
(* word without blanks and "#".  A credential file is <<>> (no path given, *)
(* or no such file) or <<lines>>, its lines being texts; an environment    *)
(* variable is <<>> (unset) or <<text>>.                                   *)
(***************************************************************************)
RECURSIVE Str(_)
\* the string a text spells
Str(t) == IF t = <<>> THEN "" ELSE Head(t) \o Str(Tail(t))

RECURSIVE LStrip(_)
LStrip(t) == IF t # <<>> /\ Head(t) = " " THEN LStrip(Tail(t)) ELSE t

RECURSIVE RStrip(_)
RStrip(t) ==
    IF t # <<>> /\ t[Len(t)] = " " THEN RStrip(SubSeq(t, 1, Len(t) - 1)) ELSE t

\* str.strip()
Strip(t) == RStrip(LStrip(t))

RECURSIVE BeforeHash(_)
\* line.split("#", 1)[0]
BeforeHash(t) ==
    IF t = <<>> \/ Head(t) = "#" THEN <<>> ELSE <<Head(t)>> \o BeforeHash(Tail(t))

OrNone(s) == IF s = "" THEN None ELSE s

RECURSIVE ReadFirstLineKeepingComments(_)
\* _read_first_token, had it only skipped the lines that start with "#"
ReadFirstLineKeepingComments(lines) ==
    IF lines = <<>> THEN None
    ELSE IF BeforeHash(Strip(Head(lines))) = <<>>
         THEN ReadFirstLineKeepingComments(Tail(lines))
    ELSE Str(Strip(Head(lines)))

RECURSIVE _read_first_token(_)
_read_first_token(lines) ==
    IF lines = <<>> THEN None
    ELSE IF Strip(BeforeHash(Head(lines))) = <<>> THEN _read_first_token(Tail(lines))
    ELSE Str(Strip(BeforeHash(Head(lines))))

\* `path and path.exists()`, then `cleaned and cleaned != placeholder`
UsableToken(file, placeholder) ==
    /\ file # <<>>
    /\ Truthy(_read_first_token(file[1]))
    /\ _read_first_token(file[1]) # placeholder

\* `if env_key:` for the value of os.getenv
EnvTruthy(env) == env # <<>> /\ env[1] # <<>>

LoadApiKeyEnvFirst(api_key_file, env_key, default_file) ==
    IF EnvTruthy(env_key)
    THEN [value |-> OrNone(Str(Strip(env_key[1]))), source |-> "env"]
    ELSE IF UsableToken(api_key_file, "YOUR_SCOPUS_API_KEY_HERE")
    THEN [value |-> _read_first_token(api_key_file[1]), source |-> "file"]
    ELSE IF UsableToken(default_file, "YOUR_SCOPUS_API_KEY_HERE")
    THEN [value |-> _read_first_token(default_file[1]), source |-> "default_file"]
    ELSE [value |-> None, source |-> None]

load_scopus_api_key_with_source(api_key_file, env_key, default_file) ==
    IF UsableToken(api_key_file, "YOUR_SCOPUS_API_KEY_HERE")
    THEN [value |-> _read_first_token(api_key_file[1]), source |-> "file"]
    ELSE IF EnvTruthy(env_key)
    THEN [value |-> OrNone(Str(Strip(env_key[1]))), source |-> "env"]
    ELSE IF UsableToken(default_file, "YOUR_SCOPUS_API_KEY_HERE")
    THEN [value |-> _read_first_token(default_file[1]), source |-> "default_file"]
    ELSE [value |-> None, source |-> None]

load_scopus_insttoken_with_source(inst_token_file, env_token, env_compat, default_file) ==
    IF UsableToken(inst_token_file, "YOUR_INST_TOKEN_HERE")
    THEN [value |-> _read_first_token(inst_token_file[1]), source |-> "file"]
    ELSE IF EnvTruthy(env_token)
    THEN [value |-> OrNone(Str(Strip(env_token[1]))), source |-> "env"]
    ELSE IF EnvTruthy(env_compat)
    THEN [value |-> OrNone(Str(Strip(env_compat[1]))), source |-> "env_compat"]
    ELSE IF UsableToken(default_file, "YOUR_INST_TOKEN_HERE")
    THEN [value |-> _read_first_token(default_file[1]), source |-> "default_file"]
    ELSE [value |-> None, source |-> None]

NoEnviron ==
    [api_file |-> <<>>, api_env |-> <<>>, api_default |-> <<>>,
     inst_file |-> <<>>, inst_env |-> <<>>, inst_compat |-> <<>>,
     inst_default |-> <<>>]

\* a file of one line holding the word w, and a variable set to w
OneLine(w) == << << <<w>> >> >>
SetTo(w) == << <<w>> >>

\* the credential files and environment variables a run of run_extract may find
CredentialEnvs ==
    { [NoEnviron EXCEPT !.api_file = OneLine("FILE_KEY")],
      [NoEnviron EXCEPT !.api_file = OneLine("SECRET_KEY")],
      [NoEnviron EXCEPT !.api_file = OneLine("YOUR_SCOPUS_API_KEY_HERE"),
                        !.api_env = SetTo("ENV_KEY"),
                        !.inst_compat = SetTo("ENV_TOKEN")],
      NoEnviron }

\* the files and variables a direct caller of the two resolvers may find
ApiKeyFiles ==
    { <<>>,
      << <<>> >>,
      << << <<"#", " ", "note">>, <<>>, <<" ">>, <<"FILE_KEY">>, <<"OTHER_KEY">> >> >>,
      << << <<" ", "FILE_KEY", " ", "#", "note">> >> >>,
      << << <<"YOUR_SCOPUS_API_KEY_HERE">> >> >> }

ApiKeyVariables ==
    { <<>>, << <<>> >>, << <<" ">> >>, << <<"ENV_KEY">> >>, << <<" ", "ENV_KEY", " ">> >> }

ApiKeyDefaults == { <<>>, OneLine("DEFAULT_KEY"), OneLine("YOUR_SCOPUS_API_KEY_HERE") }

InstTokenFiles ==
    { <<>>, << << <<"FILE_TOKEN", "#", "note">> >> >>, OneLine("YOUR_INST_TOKEN_HERE") }

InstTokenVariables == { <<>>, << <<" ">> >>, << <<"ENV_TOKEN">> >> }

InstTokenCompat == { <<>>, << <<>> >>, << <<"COMPAT_TOKEN">> >> }

InstTokenDefaults == { <<>>, OneLine("DEFAULT_TOKEN") }

AllCredentialEnvs ==
    { [api_file |-> f, api_env |-> e, api_default |-> d,
       inst_file |-> tf, inst_env |-> te, inst_compat |-> tc, inst_default |-> td] :
         f \in ApiKeyFiles, e \in ApiKeyVariables, d \in ApiKeyDefaults,
         tf \in InstTokenFiles, te \in InstTokenVariables, tc \in InstTokenCompat,
         td \in InstTokenDefaults }

ResolveIn(env) ==
    [ api |-> load_scopus_api_key_with_source(env.api_file, env.api_env, env.api_default),
      inst |-> load_scopus_insttoken_with_source(env.inst_file, env.inst_env,
                                                 env.inst_compat, env.inst_default) ]

EnsureCfgNeverRaising(cfg, api_key, inst_token) ==
    IF cfg = <<>> /\ Truthy(api_key)
    THEN [cfg |-> <<[APIKey |-> api_key,
                     InstToken |-> IF Truthy(inst_token) THEN inst_token ELSE None]>>,
          raised |-> FALSE]
    ELSE [cfg |-> cfg, raised |-> FALSE]

\* ensure_pybliometrics_cfg: the cfg file afterwards, and whether it raised
ensure_pybliometrics_cfg(cfg, api_key, inst_token) ==
    IF cfg = <<>> /\ Truthy(api_key)
    THEN [cfg |-> <<[APIKey |-> api_key,
                     InstToken |-> IF Truthy(inst_token) THEN inst_token ELSE None]>>,
          raised |-> FALSE]
    ELSE IF cfg = <<>>
    THEN [cfg |-> cfg, raised |-> TRUE]
    ELSE [cfg |-> cfg, raised |-> FALSE]

BoolStr(b) == IF b THEN "True" ELSE "False"

CredentialLogWithValues(c) ==
    << LogRec("Using pybliometrics config: %s", <<"pybliometrics.cfg">>, 0),
       LogRec("SCOPUS_API_KEY present: %s (source=%s)",
              <<c.api.value, IF Truthy(c.api.source) THEN c.api.source ELSE "none">>, 0),
       LogRec("InstToken present: %s (source=%s)",
              <<c.inst.value, IF Truthy(c.inst.source) THEN c.inst.source ELSE "none">>, 0) >>

\* the three records run_extract and init_pybliometrics log about the credentials
CredentialLog(c) ==
    << LogRec("Using pybliometrics config: %s", <<"pybliometrics.cfg">>, 0),
       LogRec("SCOPUS_API_KEY present: %s (source=%s)",
              <<BoolStr(Truthy(c.api.value)),
                IF Truthy(c.api.source) THEN c.api.source ELSE "none">>, 0),
       LogRec("InstToken present: %s (source=%s)",
              <<BoolStr(Truthy(c.inst.value)),
                IF Truthy(c.inst.source) THEN c.inst.source ELSE "none">>, 0) >>

(***************************************************************************)
(* The search manifest of _build_search_manifest / build_manifest.         *)
(***************************************************************************)
NoYears == [none |-> TRUE, list |-> <<>>]

ManifestCountingEstimate(rid, cfg, strategy_used, subscriber_mode, n_est, n_down, columns_present, raw_output_path, output_format, dry, years_covered) ==
    [ run_id |-> rid,
      query |-> cfg.query,
      database |-> IF cfg.database = "" THEN "Scopus" ELSE cfg.database,
      n_results_estimated |-> n_est,
      n_records_downloaded |-> n_est,
      strategy_used |-> strategy_used,
      years_covered |-> years_covered,
      columns_present |-> columns_present,
      schema_version |-> "1.0",
      dry_run |-> dry,
      subscriber_mode |-> subscriber_mode,
      output_raw_path |-> raw_output_path,
      output_format |-> output_format ]

_build_search_manifest(rid, cfg, strategy_used, subscriber_mode, n_est, n_down, columns_present, raw_output_path, output_format, dry, years_covered) ==
    [ run_id |-> rid,
      query |-> cfg.query,
      database |-> IF cfg.database = "" THEN "Scopus" ELSE cfg.database,
      n_results_estimated |-> n_est,
      n_records_downloaded |-> n_down,
      strategy_used |-> strategy_used,
      years_covered |-> years_covered,
      columns_present |-> columns_present,
      schema_version |-> "1.0",
      dry_run |-> dry,
      subscriber_mode |-> subscriber_mode,
      output_raw_path |-> raw_output_path,
      output_format |-> output_format ]

\* list(records.columns)
Columns(df) == IF df = <<>> THEN <<>> ELSE <<"eid", "title">>

(***************************************************************************)
(* run_extract: strategy selection.                                        *)
(***************************************************************************)
\* lines 147-154, the strategy that is logged
PlannedCursorBeforeForce(n, subscriber_mode, use_cursor_preferred, force) ==
    IF n > threshold /\ subscriber_mode /\ use_cursor_preferred THEN "cursor"
    ELSE IF force THEN "slicing"
    ELSE IF n > threshold THEN "slicing"
    ELSE "single"

PlannedIgnoringSubscriber(n, subscriber_mode, use_cursor_preferred, force) ==
    IF force THEN "slicing"
    ELSE IF n > threshold /\ use_cursor_preferred THEN "cursor"
    ELSE IF n > threshold THEN "slicing"
    ELSE "single"

PlannedAtThreshold(n, subscriber_mode, use_cursor_preferred, force) ==
    IF force THEN "slicing"
    ELSE IF n >= threshold /\ subscriber_mode /\ use_cursor_preferred THEN "cursor"
    ELSE IF n >= threshold THEN "slicing"
    ELSE "single"

PlannedStrategy(n, subscriber_mode, use_cursor_preferred, force) ==
    IF force THEN "slicing"
    ELSE IF n > threshold /\ subscriber_mode /\ use_cursor_preferred THEN "cursor"
    ELSE IF n > threshold THEN "slicing"
    ELSE "single"

\* lines 168-200, the branch that is executed
BranchWithoutCursor(n, subscriber_mode, use_cursor_preferred, force) ==
    IF force THEN "slicing"
    ELSE IF n > threshold THEN "slicing"
    ELSE "single"

DispatchBranch(n, subscriber_mode, use_cursor_preferred, force) ==
    IF force THEN "slicing"
    ELSE IF n > threshold /\ subscriber_mode /\ use_cursor_preferred THEN "cursor"
    ELSE IF n > threshold THEN "slicing"
    ELSE "single"

(***************************************************************************)
(* run_extract.                                                            *)
(***************************************************************************)
ResetRetry ==
    /\ ret' = "none"
    /\ download' = FALSE
    /\ subscriber' = FALSE
    /\ retries' = 0
    /\ attempt' = 0
    /\ last_error' = <<>>
    /\ rres' = NoResult
    /\ events' = <<>>

\* the call ends by raising e
Abort(r) ==
    /\ pc' = "idle"
    /\ result' = r
    /\ raised_at' = pc

Return ==
    /\ pc' = "idle"
    /\ result' = Returned(NoHandle)
    /\ raised_at' = ""

\* run_extract(run_id=..., force_slicing=f, dry_run=d): build_paths and setup_logging
CallRunExtract ==
    /\ pc = "idle"
    /\ \E f \in BOOLEAN, d \in BOOLEAN :
          /\ force_slicing' = f
          /\ dry_run' = d
    /\ entry' = "run_extract"
    /\ result' = NoResult
    /\ raised_at' = ""
    /\ config' = <<>>
    /\ creds' = <<>>
    /\ n_results' = -1
    /\ planned_strategy' = ""
    /\ branch' = ""
    /\ strategy' = ""
    /\ records' = <<>>
    /\ raw_output' = <<>>
    /\ log' = <<>>
    /\ remote_calls' = 0
    /\ raw_written' = FALSE
    /\ hist' = NoHist
    /\ UNCHANGED <<environ, sl>>
    /\ ResetRetry
    /\ pc' = "ex_check"
    /\ UNCHANGED <<fsVars, run_id>>
    /\ UNCHANGED modVars

\* lines 77-80
ExistenceCheck ==
    /\ pc = "ex_check"
    /\ IF RawExists(raw_dir, RawPath(run_id))
       THEN Abort(Raised(Exc("FileExistsError", 0, "Raw dataset already exists", "none"),
                         <<>>))
       ELSE /\ pc' = "ex_config"
            /\ UNCHANGED <<result, raised_at>>
    /\ UNCHANGED <<fsVars, runVars, retryVars, run_id, entry, remote_calls, raw_written, extVars>>
    /\ UNCHANGED modVars

\* lines 82-84: the config file is read and hashed
LoadConfigFrom(docs) ==
    /\ pc = "ex_config"
    /\ \/ \E data \in docs :
             /\ config' = <<load_search_config(data)>>
             /\ log' = Append(log, LogRec("Loaded search config for database %s",
                                          <<load_search_config(data).database>>, 0))
             /\ pc' = "ex_creds"
             /\ UNCHANGED <<result, raised_at>>
       \/ /\ Abort(Raised(Exc("FileNotFoundError", 0, "search.yaml", "none"), <<>>))
          /\ UNCHANGED <<config, log>>
    /\ UNCHANGED <<fsVars, retryVars, run_id, entry, remote_calls, raw_written, extVars,
                   force_slicing, dry_run, creds, n_results, planned_strategy, branch,
                   strategy, records, raw_output>>
    /\ UNCHANGED modVars

LoadConfig == LoadConfigFrom(YamlDocs)

LoadConfigWithOrWithoutQuery == LoadConfigFrom(QueryDocs)

\* line 93: if dry_run
AfterCredentialsIgnoringDryRun(dry) == "ex_init"

AfterCredentials(dry) == IF dry THEN "ex_dry" ELSE "ex_init"

\* lines 86-91
ResolveCredentials ==
    /\ pc = "ex_creds"
    /\ \E env \in CredentialEnvs :
          LET c == ResolveIn(env)
              e == ensure_pybliometrics_cfg(cfg_file, c.api.value, c.inst.value)
          IN  /\ creds' = <<c>>
              /\ environ' = env
              /\ cfg_file' = e.cfg
              /\ IF e.raised
                 THEN /\ Abort(Raised(RuntimeError("SCOPUS_API_KEY is not set"), <<>>))
                      /\ UNCHANGED log
                 ELSE /\ log' = log \o CredentialLog(c)
                      /\ pc' = AfterCredentials(dry_run)
                      /\ UNCHANGED <<result, raised_at>>
    /\ UNCHANGED <<raw_dir, manifest_file, retryVars, run_id, entry, remote_calls,
                   raw_written, sl, hist, force_slicing, dry_run, config, n_results,
                   planned_strategy, branch, strategy, records, raw_output>>
    /\ UNCHANGED modVars

\* lines 93-116
DryRun ==
    /\ pc = "ex_dry"
    /\ \E parquet_support \in BOOLEAN :
          LET raw_expected == _expected_raw_path(RawPath(run_id), parquet_support)
          IN  manifest_file' =
                <<_build_search_manifest(run_id, config[1], "dry-run", FALSE, 0, 0, <<>>,
                                         raw_expected, Suffix(raw_expected), TRUE,
                                         NoYears)>>
    /\ log' = Append(log, LogRec("Dry run complete. Manifest written to %s",
                                 <<"manifest">>, 0))
    /\ Return
    /\ UNCHANGED <<raw_dir, cfg_file, retryVars, run_id, entry, remote_calls,
                   raw_written, extVars, force_slicing, dry_run, config, creds, n_results,
                   planned_strategy, branch, strategy, records, raw_output>>
    /\ UNCHANGED modVars

\* lines 118-124: init_pybliometrics resolves the credentials again
InitPybliometrics ==
    /\ pc = "ex_init"
    /\ log' = (Append(log, LogRec("Initializing pybliometrics configuration", <<>>, 0)))
                 \o CredentialLog(creds[1])
    /\ LET e == ensure_pybliometrics_cfg(cfg_file, creds[1].api.value, creds[1].inst.value)
       IN  /\ cfg_file' = e.cfg
           /\ IF e.raised
              THEN Abort(Raised(RuntimeError("SCOPUS_API_KEY is not set"), <<>>))
              ELSE /\ pc' = "ex_estimate"
                   /\ UNCHANGED <<result, raised_at>>
    /\ UNCHANGED <<raw_dir, manifest_file, retryVars, run_id, entry, remote_calls,
                   raw_written, extVars, force_slicing, dry_run, config, creds, n_results,
                   planned_strategy, branch, strategy, records, raw_output>>
    /\ UNCHANGED modVars

\* lines 129-134
EstimateCall ==
    /\ pc = "ex_estimate"
    /\ EnterRetry("estimate", FALSE, config[1].subscriber_mode, DefaultRetries)
    /\ UNCHANGED <<fsVars, runVars, run_id, entry, result, raised_at, remote_calls,
                   raw_written, extVars>>
    /\ UNCHANGED modVars

\* lines 135-145
EstimateDone ==
    /\ pc = "rt_done"
    /\ ret = "estimate"
    /\ IF rres.status = "returned"
       THEN /\ n_results' = rres.handle.size
            /\ log' = Append(log, LogRec("Estimated %s results", <<>>, rres.handle.size))
            /\ pc' = "ex_select"
            /\ UNCHANGED <<result, raised_at>>
       ELSE IF force_slicing /\ _is_query_limit_error(rres.exc)
       THEN /\ n_results' = threshold + 1
            /\ log' = Append(log, LogRec(
                  "Estimate failed due to result limit; proceeding with slicing. Error=%s",
                  <<rres.exc.message>>, 0))
            /\ pc' = "ex_select"
            /\ UNCHANGED <<result, raised_at>>
       ELSE /\ Abort(rres)
            /\ UNCHANGED <<n_results, log>>
    /\ ResetRetry
    /\ UNCHANGED <<fsVars, run_id, entry, remote_calls, raw_written, extVars, force_slicing,
                   dry_run, config, creds, planned_strategy, branch, strategy, records,
                   raw_output>>
    /\ UNCHANGED modVars

\* lines 147-166
SelectStrategy ==
    /\ pc = "ex_select"
    /\ planned_strategy' = PlannedStrategy(n_results, config[1].subscriber_mode,
                                           config[1].use_cursor_preferred, force_slicing)
    /\ log' = Append(log, LogRec("Extract run_id=%s query=%s n_results=%s strategy=%s",
                                 <<config[1].query, planned_strategy'>>, n_results))
    /\ pc' = "ex_dispatch"
    /\ UNCHANGED <<fsVars, retryVars, run_id, entry, result, raised_at, remote_calls,
                   raw_written, extVars, force_slicing, dry_run, config, creds, n_results, branch,
                   strategy, records, raw_output>>
    /\ UNCHANGED modVars

\* the arguments of run_slicing / run_cursor_with_fallback are evaluated before the
\* call; config.max_years_back is among them
SlicingArguments ==
    IF HasAttr(config[1], "max_years_back")
    THEN /\ pc' = "sl_enter"
         /\ UNCHANGED <<result, raised_at>>
    ELSE Abort(Raised(Exc("AttributeError", 0,
                          "'SearchConfig' object has no attribute 'max_years_back'",
                          "none"), <<>>))

\* lines 168-177 and 187-196
DispatchSlicing ==
    /\ pc = "ex_dispatch"
    /\ DispatchBranch(n_results, config[1].subscriber_mode,
                      config[1].use_cursor_preferred, force_slicing) = "slicing"
    /\ branch' = "slicing"
    /\ strategy' = "slicing"
    /\ SlicingArguments
    /\ UNCHANGED <<fsVars, retryVars, run_id, entry, remote_calls, raw_written, extVars,
                   force_slicing, dry_run, config, creds, n_results, planned_strategy,
                   records, raw_output, log>>
    /\ UNCHANGED modVars

\* lines 178-186
DispatchCursor ==
    /\ pc = "ex_dispatch"
    /\ DispatchBranch(n_results, config[1].subscriber_mode,
                      config[1].use_cursor_preferred, force_slicing) = "cursor"
    /\ branch' = "cursor"
    /\ SlicingArguments
    /\ UNCHANGED <<fsVars, retryVars, run_id, entry, remote_calls, raw_written, extVars,
                   force_slicing, dry_run, config, creds, n_results, planned_strategy,
                   strategy, records, raw_output, log>>
    /\ UNCHANGED modVars

\* the single branch, had it created the output file before fetching
DispatchSingleCreatingOutput ==
    /\ pc = "ex_dispatch"
    /\ DispatchBranch(n_results, config[1].subscriber_mode,
                      config[1].use_cursor_preferred, force_slicing) = "single"
    /\ branch' = "single"
    /\ strategy' = "single"
    /\ raw_dir' = [raw_dir EXCEPT
                      ![WithSuffix(_normalize_base_path(RawPath(run_id)), "csv")] = <<<<>>>>]
    /\ EnterRetry("standard", TRUE, config[1].subscriber_mode, DefaultRetries)
    /\ UNCHANGED <<manifest_file, cfg_file, run_id, entry, result, raised_at,
                   remote_calls, raw_written, extVars, force_slicing, dry_run, config, creds,
                   n_results, planned_strategy, records, raw_output, log>>
    /\ UNCHANGED modVars

\* lines 197-200 and run_standard, lines 264-265
DispatchSingle ==
    /\ pc = "ex_dispatch"
    /\ DispatchBranch(n_results, config[1].subscriber_mode,
                      config[1].use_cursor_preferred, force_slicing) = "single"
    /\ branch' = "single"
    /\ strategy' = "single"
    /\ EnterRetry("standard", TRUE, config[1].subscriber_mode, DefaultRetries)
    /\ UNCHANGED <<fsVars, run_id, entry, result, raised_at, remote_calls, raw_written, extVars,
                   force_slicing, dry_run, config, creds, n_results, planned_strategy,
                   records, raw_output, log>>
    /\ UNCHANGED modVars

\* run_standard, line 266, and line 200
StandardDone ==
    /\ pc = "rt_done"
    /\ ret = "standard"
    /\ IF rres.status = "returned"
       THEN /\ records' = to_frame(rres.handle.results)
            /\ pc' = "ex_persist"
            /\ UNCHANGED <<result, raised_at>>
       ELSE /\ Abort(rres)
            /\ UNCHANGED records
    /\ ResetRetry
    /\ UNCHANGED <<fsVars, run_id, entry, remote_calls, raw_written, extVars, force_slicing,
                   dry_run, config, creds, n_results, planned_strategy, branch, strategy,
                   raw_output, log>>
    /\ UNCHANGED modVars

\* lines 202-207
Persist ==
    /\ pc = "ex_persist"
    /\ \E parquet_support \in BOOLEAN, to_parquet \in {"ok", "caught", "uncaught"} :
          LET w == write_table(raw_dir, records, RawPath(run_id), TRUE, parquet_support,
                               to_parquet)
              empty == IF records = <<>>
                       THEN <<LogRec("No records downloaded for query", <<>>, 0)>>
                       ELSE <<>>
          IN  /\ raw_dir' = w.dir
              /\ raw_written' = (w.dir # raw_dir \/ ~w.raised)
              /\ IF w.raised
                 THEN /\ Abort(Raised(Exc("OSError", 0, "write failed", "none"), <<>>))
                      /\ log' = log \o empty
                      /\ UNCHANGED raw_output
                 ELSE /\ raw_output' = <<[path |-> w.path, format |-> w.format]>>
                      /\ log' = (log \o empty \o w.warnings)
                                   \o <<LogRec("Saved raw data to %s", <<PathStr(w.path)>>, 0)>>
                      /\ pc' = "ex_manifest"
                      /\ UNCHANGED <<result, raised_at>>
    /\ UNCHANGED <<manifest_file, cfg_file, retryVars, run_id, entry, remote_calls,
                   force_slicing, dry_run, config, creds, n_results, planned_strategy,
                   branch, strategy, records, extVars>>
    /\ UNCHANGED modVars

\* lines 209-229
WriteManifest ==
    /\ pc = "ex_manifest"
    /\ manifest_file' =
          <<_build_search_manifest(run_id, config[1], strategy,
                                   strategy \in {"cursor", "slicing"}, n_results,
                                   Len(records), Columns(records), raw_output[1].path,
                                   raw_output[1].format, FALSE, NoYears)>>
    /\ log' = Append(log, LogRec("Wrote manifest to %s", <<"manifest">>, 0))
    /\ Return
    /\ UNCHANGED <<raw_dir, cfg_file, retryVars, run_id, entry, remote_calls,
                   raw_written, extVars, force_slicing, dry_run, config, creds, n_results,
                   planned_strategy, branch, strategy, records, raw_output>>
    /\ UNCHANGED modVars

(***************************************************************************)
(* run_cursor_with_fallback and run_slicing.                               *)
(***************************************************************************)
\* the value a call returns: run_cursor_with_fallback returns
\* (records, years_covered, strategy); years is <<>> for None, else <<list>>
ReturnedValue(v) ==
    [status |-> "returned", handle |-> NoHandle, exc |-> NoExc, cause |-> <<>>,
     value |-> v]

\* time.gmtime().tm_year
CurrentYears == {2026}

\* (start_year, end_year, max_years_back) a caller may pass
YearArguments ==
    { <<0, 0, 0>>, <<2020, 0, 0>>, <<0, 0, 2>>, <<2020, 2021, 0>>, <<2021, 2021, 0>>,
      <<2021, 2020, 0>> }

RangeListDescending(a, b) == [i \in 1..(IF b >= a THEN b - a + 1 ELSE 0) |-> b - i + 1]

\* list(range(a, b + 1))
RangeList(a, b) == [i \in 1..(IF b >= a THEN b - a + 1 ELSE 0) |-> a + i - 1]

RECURSIVE Concat(_)
\* pd.concat(frames, ignore_index=True), or the empty frame
Concat(frames) ==
    IF frames = <<>> THEN <<>> ELSE Head(frames) \o Concat(Tail(frames))

RECURSIVE DropDuplicates(_, _)
\* combined.drop_duplicates(subset=["eid"]): the first row of each eid is kept
DropDuplicates(df, seen) ==
    IF df = <<>> THEN <<>>
    ELSE IF Head(df).eid \in seen THEN DropDuplicates(Tail(df), seen)
    ELSE <<Head(df)>> \o DropDuplicates(Tail(df), seen \cup {Head(df).eid})

\* lines 326-329
Combined(frames) == DropDuplicates(Concat(frames), {})

\* run_cursor_with_fallback(query, view, start_year=, end_year=, max_years_back=,
\* subscriber=): the cursor attempt, lines 278-279
CallCursorWithFallback ==
    /\ pc = "idle"
    /\ \E y \in YearArguments, sub \in BOOLEAN :
          sl' = [NoSlicing EXCEPT !.caller = "cursor", !.start_year = y[1],
                                  !.end_year = y[2], !.max_years_back = y[3],
                                  !.subscriber = sub]
    /\ EnterRetry("cursor", TRUE, TRUE, DefaultRetries)
    /\ entry' = "run_cursor_with_fallback"
    /\ result' = NoResult
    /\ raised_at' = ""
    /\ remote_calls' = 0
    /\ raw_written' = FALSE
    /\ hist' = NoHist
    /\ UNCHANGED <<fsVars, runVars, run_id, environ>>
    /\ UNCHANGED modVars

\* the cursor attempt, had its error been left to propagate
CursorDonePropagating ==
    /\ pc = "rt_done"
    /\ ret = "cursor"
    /\ IF rres.status = "returned" /\ to_frame(rres.handle.results) # <<>>
       THEN /\ result' = ReturnedValue([records |-> to_frame(rres.handle.results),
                                        years |-> <<>>, strategy |-> "cursor"])
            /\ raised_at' = ""
            /\ pc' = "idle"
            /\ hist' = [hist EXCEPT !.cursor = "records", !.cursor_calls = remote_calls]
       ELSE IF rres.status = "raised"
       THEN /\ Abort(rres)
            /\ hist' = [hist EXCEPT !.cursor = "raised", !.cursor_calls = remote_calls]
       ELSE /\ pc' = "sl_enter"
            /\ hist' = [hist EXCEPT !.cursor = "empty", !.cursor_calls = remote_calls]
            /\ UNCHANGED <<result, raised_at>>
    /\ ResetRetry
    /\ UNCHANGED <<fsVars, runVars, run_id, entry, remote_calls, raw_written, environ, sl>>
    /\ UNCHANGED modVars

\* lines 280-293: the cursor result is returned, or run_slicing is called
CursorDone ==
    /\ pc = "rt_done"
    /\ ret = "cursor"
    /\ IF rres.status = "returned" /\ to_frame(rres.handle.results) # <<>>
       THEN /\ result' = ReturnedValue([records |-> to_frame(rres.handle.results),
                                        years |-> <<>>, strategy |-> "cursor"])
            /\ raised_at' = ""
            /\ pc' = "idle"
            /\ hist' = [hist EXCEPT !.cursor = "records", !.cursor_calls = remote_calls]
       ELSE /\ pc' = "sl_enter"
            /\ hist' = [hist EXCEPT
                           !.cursor = IF rres.status = "returned" THEN "empty" ELSE "raised",
                           !.cursor_calls = remote_calls]
            /\ UNCHANGED <<result, raised_at>>
    /\ ResetRetry
    /\ UNCHANGED <<fsVars, runVars, run_id, entry, remote_calls, raw_written, environ, sl>>
    /\ UNCHANGED modVars

\* run_slicing, lines 305-316
SlicingEnter ==
    /\ pc = "sl_enter"
    /\ IF sl.start_year = 0 \/ sl.end_year = 0
       THEN IF sl.max_years_back = 0
            THEN /\ Abort(Raised(Exc("ValueError", 0,
                        "start_year/end_year or max_years_back must be set for slicing strategy.",
                        "none"), <<>>))
                 /\ UNCHANGED sl
            ELSE /\ \E current_year \in CurrentYears :
                       sl' = [sl EXCEPT !.years = RangeList(current_year - sl.max_years_back + 1,
                                                            current_year)]
                 /\ pc' = "sl_loop"
                 /\ UNCHANGED <<result, raised_at>>
       ELSE /\ sl' = [sl EXCEPT !.years = RangeList(sl.start_year, sl.end_year)]
            /\ pc' = "sl_loop"
            /\ UNCHANGED <<result, raised_at>>
    /\ UNCHANGED <<fsVars, runVars, retryVars, run_id, entry, remote_calls, raw_written,
                   environ, hist>>
    /\ UNCHANGED modVars

\* lines 317-319: the size probe of the next year
SlicePrecheck ==
    /\ pc = "sl_loop"
    /\ sl.years # <<>>
    /\ EnterRetry("precheck", FALSE, sl.subscriber, DefaultRetries)
    /\ sl' = [sl EXCEPT !.trace = Append(@, Issued(Head(sl.years), "probe"))]
    /\ UNCHANGED <<fsVars, runVars, run_id, entry, result, raised_at, remote_calls,
                   raw_written, environ, hist>>
    /\ UNCHANGED modVars

NeverSkipped(size) == FALSE

\* line 320: if precheck.get_results_size() == 0: continue
Skipped(size) == size = 0

\* lines 320-323: the year is skipped, or recorded and fetched
PrecheckDone ==
    /\ pc = "rt_done"
    /\ ret = "precheck"
    /\ IF rres.status = "raised"
       THEN /\ Abort(rres)
            /\ ResetRetry
            /\ sl' = [sl EXCEPT !.trace = Append(@, Completed(Head(sl.years), "probe",
                                                              "raised", 0, <<>>))]
       ELSE IF Skipped(rres.handle.size)
       THEN /\ sl' = [sl EXCEPT !.years = Tail(@),
                                !.trace = Append(@, Completed(Head(sl.years), "probe",
                                                              "returned", 0, <<>>))]
            /\ pc' = "sl_loop"
            /\ ResetRetry
            /\ UNCHANGED <<result, raised_at>>
       ELSE /\ sl' = [sl EXCEPT !.covered = Append(@, Head(sl.years)),
                                !.trace = @ \o <<Completed(Head(sl.years), "probe", "returned",
                                                           rres.handle.size, <<>>),
                                                 Issued(Head(sl.years), "fetch")>>]
            /\ EnterRetry("slice", TRUE, sl.subscriber, DefaultRetries)
            /\ UNCHANGED <<result, raised_at>>
    /\ UNCHANGED <<fsVars, runVars, run_id, entry, remote_calls, raw_written, environ,
                   hist>>
    /\ UNCHANGED modVars

\* line 324
SliceDone ==
    /\ pc = "rt_done"
    /\ ret = "slice"
    /\ IF rres.status = "raised"
       THEN /\ Abort(rres)
            /\ sl' = [sl EXCEPT !.trace = Append(@, Completed(Head(sl.years), "fetch",
                                                              "raised", 0, <<>>))]
       ELSE /\ sl' = [sl EXCEPT !.frames = Append(@, to_frame(rres.handle.results)),
                                !.years = Tail(@),
                                !.trace = Append(@, Completed(Head(sl.years), "fetch",
                                                     "returned", rres.handle.size,
                                                     to_frame(rres.handle.results)))]
            /\ pc' = "sl_loop"
            /\ UNCHANGED <<result, raised_at>>
    /\ ResetRetry
    /\ UNCHANGED <<fsVars, runVars, run_id, entry, remote_calls, raw_written, environ,
                   hist>>
    /\ UNCHANGED modVars

\* lines 326-329 and, in run_cursor_with_fallback, line 293
SlicingReturn ==
    /\ pc = "sl_loop"
    /\ sl.years = <<>>
    /\ sl.caller = "cursor"
    /\ result' = ReturnedValue([records |-> Combined(sl.frames),
                                years |-> <<sl.covered>>, strategy |-> "slicing"])
    /\ raised_at' = ""
    /\ pc' = "idle"
    /\ UNCHANGED <<fsVars, runVars, retryVars, run_id, entry, remote_calls, raw_written,
                   extVars>>
    /\ UNCHANGED modVars

\* run_slicing(query, view, start_year=, end_year=, max_years_back=, subscriber=)
\* called on its own
SliceArguments ==
    { <<0, 0, 0>>, <<0, 0, 2>>, <<2019, 2021, 0>>, <<2021, 2021, 0>>, <<2021, 2020, 0>> }

CallRunSlicing ==
    /\ pc = "idle"
    /\ \E y \in SliceArguments, sub \in BOOLEAN :
          sl' = [NoSlicing EXCEPT !.caller = "direct", !.start_year = y[1],
                                  !.end_year = y[2], !.max_years_back = y[3],
                                  !.subscriber = sub]
    /\ pc' = "sl_enter"
    /\ entry' = "run_slicing"
    /\ result' = NoResult
    /\ raised_at' = ""
    /\ remote_calls' = 0
    /\ raw_written' = FALSE
    /\ hist' = NoHist
    /\ UNCHANGED <<fsVars, runVars, retryVars, run_id, environ>>
    /\ UNCHANGED modVars

\* lines 326-329
SlicingReturnNoDedup ==
    /\ pc = "sl_loop"
    /\ sl.years = <<>>
    /\ sl.caller = "direct"
    /\ result' = ReturnedValue([records |-> Concat(sl.frames), years |-> <<sl.covered>>])
    /\ raised_at' = ""
    /\ pc' = "idle"
    /\ UNCHANGED <<fsVars, runVars, retryVars, run_id, entry, remote_calls, raw_written,
                   extVars>>
    /\ UNCHANGED modVars

SlicingReturnDirect ==
    /\ pc = "sl_loop"
    /\ sl.years = <<>>
    /\ sl.caller = "direct"
    /\ result' = ReturnedValue([records |-> Combined(sl.frames), years |-> <<sl.covered>>])
    /\ raised_at' = ""
    /\ pc' = "idle"
    /\ UNCHANGED <<fsVars, runVars, retryVars, run_id, entry, remote_calls, raw_written,
                   extVars>>
    /\ UNCHANGED modVars

(***************************************************************************)
(* scopus_full_analysis, the manifest as JSON, run_clean and run_analyze.  *)
(***************************************************************************)
NoFull == [df |-> <<>>, df_clean |-> <<>>]

\* A cell of the CSV is <<>> (empty, read as NaN) or <<text>>.
Cell(t) == <<t>>
NaN == <<>>

\* str.lower() of a word
LowerWords ==
    [w \in {"10.1/A", "A", "Title", "Smith", "Jones"} |->
        CASE w = "10.1/A" -> "10.1/a" [] w = "A" -> "a" [] w = "Title" -> "title"
          [] w = "Smith" -> "smith" [] w = "Jones" -> "jones"]

Lower(t) == [i \in 1..Len(t) |-> IF t[i] \in DOMAIN LowerWords THEN LowerWords[t[i]] ELSE t[i]]

RECURSIVE CollapseBlanks(_)
\* re.sub(r"\s+", " ", text)
CollapseBlanks(t) ==
    IF Len(t) < 2 THEN t
    ELSE IF t[1] = " " /\ t[2] = " " THEN CollapseBlanks(Tail(t))
    ELSE <<Head(t)>> \o CollapseBlanks(Tail(t))

_norm_text(value) ==
    IF value = NaN THEN "" ELSE Str(CollapseBlanks(Lower(Strip(value[1]))))

RECURSIVE BeforeSemicolon(_)
\* text.split(";")[0]
BeforeSemicolon(t) ==
    IF t = <<>> \/ Head(t) = ";" THEN <<>> ELSE <<Head(t)>> \o BeforeSemicolon(Tail(t))

_first_author(authors) ==
    IF authors = NaN THEN ""
    ELSE IF Strip(authors[1]) = <<>> THEN ""
    ELSE _norm_text(Cell(BeforeSemicolon(Strip(authors[1]))))

\* pd.to_numeric(..., errors="coerce"): <<>> for NaN, else <<number>>
Numbers == [w \in {"2020", "2021"} |-> IF w = "2020" THEN 2020 ELSE 2021]

ToNumeric(cell) ==
    IF cell # NaN /\ Len(Strip(cell[1])) = 1 /\ Strip(cell[1])[1] \in DOMAIN Numbers
    THEN <<Numbers[Strip(cell[1])[1]]>>
    ELSE <<>>

\* the columns _eid, _doi, _t, _year, _a1 of a row, lines 182-194
Derived(row) ==
    [ _eid |-> IF row.eid = NaN THEN "" ELSE Str(Strip(row.eid[1])),
      _doi |-> IF row.doi = NaN THEN "" ELSE Str(Lower(Strip(row.doi[1]))),
      _t |-> _norm_text(row.title),
      _year |-> ToNumeric(row.year),
      _a1 |-> _first_author(row.authors) ]

MakeKeyDoiFirst(row) ==
    IF Derived(row)._doi # "" THEN "DOI:" \o Derived(row)._doi
    ELSE IF Derived(row)._eid # "" THEN "EID:" \o Derived(row)._eid
    ELSE "FALL:" \o Derived(row)._t \o "|" \o ToString(Derived(row)._year[1]) \o "|"
            \o Derived(row)._a1

\* lines 196-201
make_key(row) ==
    IF Derived(row)._eid # "" THEN "EID:" \o Derived(row)._eid
    ELSE IF Derived(row)._doi # "" THEN "DOI:" \o Derived(row)._doi
    ELSE "FALL:" \o Derived(row)._t \o "|" \o ToString(Derived(row)._year[1]) \o "|"
            \o Derived(row)._a1

\* line 183: df = df[df["_year"].notna()]
HasYear(row) == ToNumeric(row.year) # <<>>

RECURSIVE DropDuplicateKeys(_, _)
\* df.drop_duplicates(subset=["_dedup_key"])
DropDuplicateKeys(df, seen) ==
    IF df = <<>> THEN <<>>
    ELSE IF make_key(Head(df)) \in seen THEN DropDuplicateKeys(Tail(df), seen)
    ELSE <<Head(df)>> \o DropDuplicateKeys(Tail(df), seen \cup {make_key(Head(df))})

CsvRow(eid, doi, title, year, authors) ==
    [eid |-> eid, doi |-> doi, title |-> title, year |-> year, authors |-> authors]

\* the rows a CSV may hold
CsvRows ==
    { CsvRow(Cell(<<"1">>), NaN, Cell(<<"A">>), Cell(<<"2020">>), NaN),
      CsvRow(Cell(<<"1", " ">>), NaN, Cell(<<"A-dup">>), Cell(<<"2020">>), NaN),
      CsvRow(Cell(<<"2">>), Cell(<<"10.1/a">>), Cell(<<"B">>), Cell(<<"2020">>), NaN),
      CsvRow(NaN, Cell(<<"10.1/A">>), Cell(<<"C">>), Cell(<<"2020">>), NaN),
      CsvRow(NaN, Cell(<<"10.1/a">>), Cell(<<"D">>), Cell(<<"2021">>), NaN),
      CsvRow(NaN, NaN, Cell(<<"A", " ", " ", "Title">>), Cell(<<"2020">>),
             Cell(<<"Smith", ";", "Jones">>)),
      CsvRow(NaN, NaN, Cell(<<"a", " ", "title">>), Cell(<<"2020">>), Cell(<<"smith">>)),
      CsvRow(NaN, NaN, Cell(<<"a", " ", "title">>), Cell(<<"2021">>), Cell(<<"smith">>)),
      CsvRow(Cell(<<"1">>), NaN, Cell(<<"no", " ", "year">>), Cell(<<"n/a">>), NaN) }

CsvTables == UNION { [1..n -> CsvRows] : n \in 0..MaxRows }

\* run_full_scopus_csv_analysis, lines 182-205, run once on the CSV it is given
RunFullAnalysis ==
    /\ pc = "idle"
    /\ fa = NoFull
    /\ \E table \in CsvTables :
          fa' = [df |-> table, df_clean |-> DropDuplicateKeys(SelectSeq(table, HasYear), {})]
    /\ entry' = "run_full_scopus_csv_analysis"
    /\ UNCHANGED <<fsVars, runVars, retryVars, extVars, pc, result, raised_at, run_id,
                   remote_calls, raw_written, js, cl>>
NoJson == [manifest |-> <<>>]

(***************************************************************************)
(* Python values and JSON text.  A Python value is None, an int, a str, a  *)
(* list or a dict (its keys in insertion order, and the value at each      *)
(* key); a JSON text is the value json.dumps writes: null, a number, a     *)
(* string, an array or an object whose members come in the order written.  *)
(***************************************************************************)
PyNone == [py |-> "None"]
PyInt(n) == [py |-> "int", n |-> n]
PyStr(str) == [py |-> "str", s |-> str]
PyList(items) == [py |-> "list", items |-> items]
PyDict(order, at) == [py |-> "dict", order |-> order, at |-> at]

\* the keys of build_manifest in the order the dict literal gives them
ManifestKeys ==
    <<"timestamp_utc", "run_id", "query", "database", "n_results_estimated",
      "n_records_downloaded", "strategy_used", "years_covered", "python_version",
      "package_versions", "columns_present", "git_commit">>

\* get_package_versions
Packages == <<"pybliometrics", "pandas", "numpy", "pyarrow">>

\* the code points of a key
CodePoints(k) ==
    CASE k = "timestamp_utc" -> <<116, 105, 109, 101, 115, 116, 97, 109, 112, 95, 117, 116, 99>>
          [] k = "run_id" -> <<114, 117, 110, 95, 105, 100>>
          [] k = "query" -> <<113, 117, 101, 114, 121>>
          [] k = "database" -> <<100, 97, 116, 97, 98, 97, 115, 101>>
          [] k = "n_results_estimated" -> <<110, 95, 114, 101, 115, 117, 108, 116, 115, 95, 101, 115, 116, 105, 109, 97, 116, 101, 100>>
          [] k = "n_records_downloaded" -> <<110, 95, 114, 101, 99, 111, 114, 100, 115, 95, 100, 111, 119, 110, 108, 111, 97, 100, 101, 100>>
          [] k = "strategy_used" -> <<115, 116, 114, 97, 116, 101, 103, 121, 95, 117, 115, 101, 100>>
          [] k = "years_covered" -> <<121, 101, 97, 114, 115, 95, 99, 111, 118, 101, 114, 101, 100>>
          [] k = "python_version" -> <<112, 121, 116, 104, 111, 110, 95, 118, 101, 114, 115, 105, 111, 110>>
          [] k = "package_versions" -> <<112, 97, 99, 107, 97, 103, 101, 95, 118, 101, 114, 115, 105, 111, 110, 115>>
          [] k = "columns_present" -> <<99, 111, 108, 117, 109, 110, 115, 95, 112, 114, 101, 115, 101, 110, 116>>
          [] k = "git_commit" -> <<103, 105, 116, 95, 99, 111, 109, 109, 105, 116>>
          [] k = "pybliometrics" -> <<112, 121, 98, 108, 105, 111, 109, 101, 116, 114, 105, 99, 115>>
          [] k = "pandas" -> <<112, 97, 110, 100, 97, 115>>
          [] k = "numpy" -> <<110, 117, 109, 112, 121>>
          [] k = "pyarrow" -> <<112, 121, 97, 114, 114, 111, 119>>

RECURSIVE LessCodes(_, _)
\* a < b for two strings given as code points
LessCodes(a, b) ==
    IF b = <<>> THEN FALSE
    ELSE IF a = <<>> THEN TRUE
    ELSE IF Head(a) # Head(b) THEN Head(a) < Head(b)
    ELSE LessCodes(Tail(a), Tail(b))

StrLess(a, b) == LessCodes(CodePoints(a), CodePoints(b))

RECURSIVE Insert(_, _)
Insert(k, sorted) ==
    IF sorted = <<>> THEN <<k>>
    ELSE IF StrLess(k, Head(sorted)) THEN <<k>> \o sorted
    ELSE <<Head(sorted)>> \o Insert(k, Tail(sorted))

RECURSIVE Sorted(_)
\* sorted(keys)
Sorted(keys) == IF keys = <<>> THEN <<>> ELSE Insert(Head(keys), Sorted(Tail(keys)))

InsertionOrder(keys) == keys

RECURSIVE Dumps(_, _)
\* json.dumps(data, indent=2, sort_keys=sort_keys)
Dumps(v, sort_keys) ==
    CASE v.py = "None" -> [json |-> "null"]
      [] v.py = "int" -> [json |-> "number", n |-> v.n]
      [] v.py = "str" -> [json |-> "string", s |-> v.s]
      [] v.py = "list" ->
            [json |-> "array", items |-> [i \in 1..Len(v.items) |-> Dumps(v.items[i], sort_keys)]]
      [] v.py = "dict" ->
            LET order == IF sort_keys THEN Sorted(v.order) ELSE v.order
            IN  [json |-> "object",
                 members |-> [i \in 1..Len(order) |->
                                [name |-> order[i], value |-> Dumps(v.at[order[i]], sort_keys)]]]

RECURSIVE Loads(_)
\* json.loads(text)
Loads(t) ==
    CASE t.json = "null" -> PyNone
      [] t.json = "number" -> PyInt(t.n)
      [] t.json = "string" -> PyStr(t.s)
      [] t.json = "array" -> PyList([i \in 1..Len(t.items) |-> Loads(t.items[i])])
      [] t.json = "object" ->
            PyDict([i \in 1..Len(t.members) |-> t.members[i].name],
                   [k \in { t.members[i].name : i \in 1..Len(t.members) } |->
                      Loads((CHOOSE m \in { t.members[i] : i \in 1..Len(t.members) } :
                                m.name = k).value)])

WriteJsonUnsorted(data) == Dumps(data, FALSE)

\* io_utils.write_json: the text written to the path
write_json(data) == Dumps(data, TRUE)

\* an Optional[str] and an Optional[List[int]] as Python values
OptStr(v) == IF v = None THEN PyNone ELSE PyStr(v)
OptYears(years) ==
    IF years.none THEN PyNone ELSE PyList([i \in 1..Len(years.list) |-> PyInt(years.list[i])])

\* settings.build_manifest
build_manifest(timestamp, rid, query, database, n_est, n_down, strategy_used, years_covered, columns_present, versions, git_commit) ==
    PyDict(InsertionOrder(ManifestKeys),
           [k \in { ManifestKeys[i] : i \in 1..Len(ManifestKeys) } |->
              CASE k = "timestamp_utc" -> PyStr(timestamp)
                [] k = "run_id" -> PyStr(rid)
                [] k = "query" -> PyStr(query)
                [] k = "database" -> PyStr(database)
                [] k = "n_results_estimated" -> PyInt(n_est)
                [] k = "n_records_downloaded" -> PyInt(n_down)
                [] k = "strategy_used" -> PyStr(strategy_used)
                [] k = "years_covered" -> OptYears(years_covered)
                [] k = "python_version" -> PyStr("3.11.4")
                [] k = "package_versions" ->
                      PyDict(InsertionOrder(Packages),
                             [p \in { Packages[i] : i \in 1..Len(Packages) } |-> OptStr(versions[p])])
                [] k = "columns_present" ->
                      PyList([i \in 1..Len(columns_present) |-> PyStr(columns_present[i])])
                [] k = "git_commit" -> OptStr(git_commit)])

\* what metadata.version may answer for the four packages
PackageVersions ==
    { [p \in { Packages[i] : i \in 1..Len(Packages) } |-> IF p \in installed THEN "2.1" ELSE None] :
        installed \in { {"pandas", "numpy"}, {"pybliometrics", "pandas", "numpy", "pyarrow"} } }

YearLists ==
    { NoYears, [none |-> FALSE, list |-> <<>>], [none |-> FALSE, list |-> <<2021>>],
      [none |-> FALSE, list |-> <<2020, 2021>>] }

\* build_manifest(...), write_json(manifest, path) and read_json(path), once
WriteAndReadManifest ==
    /\ pc = "idle"
    /\ js = NoJson
    /\ \E years \in YearLists, n_est \in {0, 5001}, n_down \in {0, 2},
          strategy_used \in {"single", "slicing", "cursor"}, columns \in {<<>>, <<"eid">>},
          versions \in PackageVersions, git_commit \in {None, "0a1b2c3"} :
          LET manifest == build_manifest("2026-01-01T00:00:00+00:00", PathStr(run_id),
                                         "TITLE-ABS-KEY(x)", "Scopus", n_est, n_down,
                                         strategy_used, years, columns, versions, git_commit)
          IN  js' = [manifest |-> <<manifest>>, years_covered |-> years,
                     text |-> write_json(manifest), parsed |-> Loads(write_json(manifest))]
    /\ entry' = "write_json"
    /\ UNCHANGED <<fsVars, runVars, retryVars, extVars, pc, result, raised_at, run_id,
                   remote_calls, raw_written, fa, cl>>
(***************************************************************************)
(* clean_scopus.run_clean and analyze_bibliometrics.run_analyze for the    *)
(* run identifier, without an explicit input for run_analyze.              *)
(***************************************************************************)
\* data/processed/scopus_clean_<run_id>
CleanPath(rid) == <<"scopus_clean_" \o rid[1]>> \o Tail(rid)

CleanNames ==
    UNION { { CleanPath(r), _normalize_base_path(CleanPath(r)),
              WithSuffix(CleanPath(r), "parquet"), WithSuffix(CleanPath(r), "csv"),
              WithSuffix(_normalize_base_path(CleanPath(r)), "parquet"),
              WithSuffix(_normalize_base_path(CleanPath(r)), "csv") } : r \in RunIds }

NoTables == [pubs_by_year |-> <<>>, top_journals |-> <<>>, top_authors |-> <<>>,
             keyword_freq |-> <<>>, yoy_growth |-> <<>>]

NoClean ==
    [ processed |-> [name \in CleanNames |-> <<>>], analysis |-> NoTables,
      manifest |-> <<>>, force |-> FALSE, write_format |-> "", cleaned |-> <<>>,
      analyzed |-> <<>> ]

\* the raw tables run_clean may read
RawTables == { to_frame(<<1, 1>>), to_frame(<<1, 2>>), to_frame(<<3>>) }

\* io_utils.read_table(path_base): the frame read, or the exception raised
read_table(dir, path_base, parquet_support) ==
    LET path == _normalize_base_path(path_base)
        parquet_path == WithSuffix(path, "parquet")
        csv_path == WithSuffix(path, "csv")
        read(name) == [raised |-> "", df |-> dir[name][1]]
        raise(name) == [raised |-> name, df |-> <<>>]
    IN  IF Suffix(path) = "csv" /\ Exists(dir, path) THEN read(path)
        ELSE IF Suffix(path) = "parquet" /\ Exists(dir, path)
        THEN IF ~parquet_support
             THEN IF Exists(dir, csv_path) THEN read(csv_path) ELSE raise("RuntimeError")
             ELSE read(path)
        ELSE IF Suffix(path) # "" THEN raise("FileNotFoundError")
        ELSE IF Exists(dir, parquet_path)
        THEN IF ~parquet_support /\ Exists(dir, csv_path) THEN read(csv_path)
             ELSE IF ~parquet_support THEN raise("RuntimeError")
             ELSE read(parquet_path)
        ELSE IF Exists(dir, csv_path) THEN read(csv_path)
        ELSE raise("FileNotFoundError")

NeverRefuses(exists, force) == FALSE

\* run_clean, line 161: (parquet_path.exists() or csv_path.exists()) and not force
RefusesOverwrite(exists, force) == exists /\ ~force

\* run_clean, lines 164-169: the path handed to write_table
CleanTarget(output_base, write_format) ==
    IF write_format = "csv" THEN WithSuffix(output_base, "csv")
    ELSE IF write_format = "parquet" THEN WithSuffix(output_base, "parquet")
    ELSE output_base

Raise(name) == Raised(Exc(name, 0, "", "none"), <<>>)

\* run_clean(run_id=, base_dir=, input_path=, force=, write_format=)
RunClean ==
    /\ pc = "idle"
    /\ \E force \in BOOLEAN, write_format \in {"auto", "parquet", "csv"},
          raw \in {<<>>} \cup { <<t>> : t \in RawTables },
          parquet_support \in BOOLEAN, to_parquet \in {"ok", "caught", "uncaught"} :
          LET called == [cl EXCEPT !.force = force, !.write_format = write_format,
                                   !.analyzed = <<>>]
              df == DropDuplicates(raw[1], {})
              output_base == CleanPath(run_id)
              w == write_table(cl.processed, df, CleanTarget(output_base, write_format),
                               TRUE, parquet_support, to_parquet)
          IN  IF raw = <<>>
              THEN /\ result' = Raise("FileNotFoundError")
                   /\ cl' = called
              ELSE IF RefusesOverwrite(RawExists(cl.processed, output_base), force)
              THEN /\ result' = Raise("FileExistsError")
                   /\ cl' = called
              ELSE IF w.raised
              THEN /\ result' = Raise("OSError")
                   /\ cl' = called
              ELSE /\ result' = Returned(NoHandle)
                   /\ cl' = [called EXCEPT
                               !.processed = w.dir,
                               !.analysis = [@ EXCEPT !.pubs_by_year = <<df>>,
                                                      !.top_journals = <<df>>,
                                                      !.top_authors = <<df>>,
                                                      !.keyword_freq = <<df>>],
                               !.manifest = <<[output_path |-> PathStr(w.path),
                                               output_format |-> w.format,
                                               duplicates_removed |-> Len(raw[1]) - Len(df)]>>,
                               !.cleaned = <<df>>]
    /\ entry' = "run_clean"
    /\ UNCHANGED <<fsVars, runVars, retryVars, extVars, pc, raised_at, run_id,
                   remote_calls, raw_written, fa, js>>

\* run_analyze(run_id=, base_dir=, input_path=None, ...), lines 166-215
RunAnalyze ==
    /\ pc = "idle"
    /\ \E parquet_support \in BOOLEAN :
          LET clean_path == CleanPath(run_id)
              r == read_table(cl.processed, clean_path, parquet_support)
          IN  IF ~RawExists(cl.processed, clean_path)
              THEN /\ result' = Raise("FileNotFoundError")
                   /\ cl' = [cl EXCEPT !.analyzed = <<>>]
              ELSE IF r.raised # ""
              THEN /\ result' = Raise(r.raised)
                   /\ cl' = [cl EXCEPT !.analyzed = <<>>]
              ELSE /\ result' = Returned(NoHandle)
                   /\ cl' = [cl EXCEPT !.analyzed = <<r.df>>,
                                       !.analysis = [@ EXCEPT !.pubs_by_year = <<r.df>>,
                                                              !.yoy_growth = <<r.df>>]]
    /\ entry' = "run_analyze"
    /\ UNCHANGED <<fsVars, runVars, retryVars, extVars, pc, raised_at, run_id,
                   remote_calls, raw_written, fa, js>>

(***************************************************************************)
(* Specifications.                                                         *)
(***************************************************************************)
InitIn(environments) ==
    /\ raw_dir = [name \in RawNames |-> <<>>]
    /\ manifest_file = <<>>
    /\ cfg_file = <<>>
    /\ pc = "idle"
    /\ entry = "none"
    /\ result = NoResult
    /\ raised_at = ""
    /\ run_id \in RunIds
    /\ force_slicing = FALSE
    /\ dry_run = FALSE
    /\ config = <<>>
    /\ creds = <<>>
    /\ n_results = -1
    /\ planned_strategy = ""
    /\ branch = ""
    /\ strategy = ""
    /\ records = <<>>
    /\ raw_output = <<>>
    /\ log = <<>>
    /\ ret = "none"
    /\ download = FALSE
    /\ subscriber = FALSE
    /\ retries = 0
    /\ attempt = 0
    /\ last_error = <<>>
    /\ rres = NoResult
    /\ events = <<>>
    /\ remote_calls = 0
    /\ raw_written = FALSE
    /\ environ \in environments
    /\ sl = NoSlicing
    /\ hist = NoHist
    /\ fa = NoFull
    /\ js = NoJson
    /\ cl = NoClean

Init == InitIn({NoEnviron})

\* sequences of run_extract calls for one run identifier
Next ==
    \/ CallRunExtract
    \/ ExistenceCheck
    \/ LoadConfig
    \/ ResolveCredentials
    \/ DryRun
    \/ InitPybliometrics
    \/ EstimateCall
    \/ RetryAttemptOk
    \/ RetryAttemptFail
    \/ RetrySleep
    \/ EstimateDone
    \/ SelectStrategy
    \/ DispatchSlicing
    \/ DispatchCursor
    \/ DispatchSingle
    \/ StandardDone
    \/ Persist
    \/ WriteManifest

Spec == Init /\ [][Next]_vars

\* the same calls, with a config file that may lack `query`
NextQuery ==
    \/ CallRunExtract
    \/ ExistenceCheck
    \/ LoadConfigWithOrWithoutQuery
    \/ ResolveCredentials
    \/ DryRun
    \/ InitPybliometrics
    \/ EstimateCall
    \/ RetryAttemptOk
    \/ RetryAttemptFail
    \/ RetrySleep
    \/ EstimateDone
    \/ SelectStrategy
    \/ DispatchSlicing
    \/ DispatchCursor
    \/ DispatchSingle
    \/ StandardDone
    \/ Persist
    \/ WriteManifest

QuerySpec == Init /\ [][NextQuery]_vars

\* retry_scopus_search called on its own, with any retries
NextRetry ==
    \/ CallRetryDirect
    \/ RetryAttemptOk
    \/ RetryAttemptFail
    \/ RetrySleep
    \/ RetryFallthrough
    \/ RetryDirectReturn

\* the interpreter always takes the next step of a running call
RetrySpec == Init /\ [][NextRetry]_vars /\ WF_vars(NextRetry)

\* load_scopus_api_key_with_source(api_key_file) and
\* load_scopus_insttoken_with_source(inst_token_file) called on their own
CallResolvers ==
    /\ pc = "idle"
    /\ creds = <<>>
    /\ creds' = <<ResolveIn(environ)>>
    /\ entry' = "load_credentials"
    /\ UNCHANGED <<fsVars, pc, result, raised_at, run_id, retryVars, remote_calls,
                   raw_written, extVars, force_slicing, dry_run, config, n_results,
                   planned_strategy, branch, strategy, records, raw_output, log>>
    /\ UNCHANGED modVars

NextCredentials == CallResolvers

\* the process starts with any of the key files and variables in place
CredentialInit == InitIn(AllCredentialEnvs)

CredentialSpec == CredentialInit /\ [][NextCredentials]_vars

\* run_cursor_with_fallback called on its own
NextCursor ==
    \/ CallCursorWithFallback
    \/ RetryAttemptOk
    \/ RetryAttemptFail
    \/ RetrySleep
    \/ CursorDone
    \/ SlicingEnter
    \/ SlicePrecheck
    \/ PrecheckDone
    \/ SliceDone
    \/ SlicingReturn

CursorSpec == Init /\ [][NextCursor]_vars /\ WF_vars(NextCursor)

\* the deduplication of run_full_scopus_csv_analysis on its own
NextFull == RunFullAnalysis

FullSpec == Init /\ [][NextFull]_vars

\* a manifest built, written and read back
NextJson == WriteAndReadManifest

JsonSpec == Init /\ [][NextJson]_vars

\* run_clean and run_analyze calls for one run identifier
NextClean ==
    \/ RunClean
    \/ RunAnalyze

CleanSpec == Init /\ [][NextClean]_vars

\* run_slicing called on its own
NextSlicing ==
    \/ CallRunSlicing
    \/ SlicingEnter
    \/ SlicePrecheck
    \/ RetryAttemptOk
    \/ RetryAttemptFail
    \/ RetrySleep
    \/ PrecheckDone
    \/ SliceDone
    \/ SlicingReturnDirect

SlicingSpec == Init /\ [][NextSlicing]_vars /\ WF_vars(NextSlicing)

(***************************************************************************)
(* Properties of the strategy selection of run_extract.                    *)
(***************************************************************************)
Selected == entry = "run_extract" /\ planned_strategy # ""
Dispatched == entry = "run_extract" /\ branch # ""

\* C1: whenever a run with force_slicing = true has selected its strategy, the
\* planned strategy is "slicing" and the branch it executes is the slicing
\* branch, for every n and every subscriber_mode and use_cursor_preferred.
C1_ForceSlicing ==
    (Selected /\ force_slicing) =>
        /\ planned_strategy = "slicing"
        /\ Dispatched => (branch = "slicing" /\ strategy = "slicing")

C1_Witness ==
    /\ Dispatched /\ force_slicing /\ branch = "slicing"
    /\ n_results > threshold
    /\ config[1].subscriber_mode /\ config[1].use_cursor_preferred

\* C2 as stated: for every n <= 5000 the selected strategy is "single",
\* whatever the other flags are.
C2_SingleUpToThreshold ==
    (Selected /\ n_results <= threshold) => planned_strategy = "single"

\* C2 as amended: for every n <= 5000 and force_slicing = false the selected
\* strategy and the executed branch are "single".
C2_SingleUnlessForced ==
    (Selected /\ n_results <= threshold /\ ~force_slicing) =>
        /\ planned_strategy = "single"
        /\ Dispatched => (branch = "single" /\ strategy = "single")

C2_Witness ==
    /\ Dispatched /\ ~force_slicing /\ n_results = threshold
    /\ branch = "single" /\ pc = "ex_persist"

\* C3: for every n > 5000 with subscriber_mode = false the selected strategy is
\* "slicing", and with subscriber_mode = false the cursor branch is never
\* taken, whatever use_cursor_preferred and force_slicing are.
C3_NoCursorWithoutSubscriber ==
    /\ (Selected /\ n_results > threshold /\ ~config[1].subscriber_mode) =>
           /\ planned_strategy = "slicing"
           /\ Dispatched => branch = "slicing"
    /\ (Selected /\ ~config[1].subscriber_mode) => planned_strategy # "cursor"
    /\ (Dispatched /\ ~config[1].subscriber_mode) => branch # "cursor"

C3_Witness ==
    /\ Dispatched /\ n_results > threshold /\ ~force_slicing
    /\ ~config[1].subscriber_mode /\ config[1].use_cursor_preferred
    /\ branch = "slicing"

\* C4: the selection yields exactly one of the three strategies, decided by
\* (n, subscriber_mode, use_cursor_preferred, force_slicing) alone; the cursor
\* branch is taken iff force_slicing is false, n > 5000 and subscriber_mode and
\* use_cursor_preferred are both true; the strategy logged is the branch
\* executed; and the selection step changes no file and makes no remote call.
C4_Selection ==
    /\ Selected => planned_strategy \in {"single", "slicing", "cursor"}
    /\ Selected =>
          /\ (planned_strategy = "cursor") <=>
                (~force_slicing /\ n_results > threshold
                    /\ config[1].subscriber_mode /\ config[1].use_cursor_preferred)
          /\ (planned_strategy = "single") <=>
                (~force_slicing /\ n_results <= threshold)
    /\ Dispatched =>
          /\ branch = planned_strategy
          /\ (branch = "cursor") <=>
                (~force_slicing /\ n_results > threshold
                    /\ config[1].subscriber_mode /\ config[1].use_cursor_preferred)
    /\ pc = "ex_dispatch" =>
          log[Len(log)].strs = <<config[1].query, planned_strategy>>

C4_SelectionStep ==
    pc = "ex_select" =>
        /\ UNCHANGED <<fsVars, remote_calls, raw_written, config, creds, n_results,
                       force_slicing>>
        /\ pc' = "ex_dispatch"

C4_PureSelection == [](C4_Selection) /\ [][C4_SelectionStep]_vars

C4_Witness ==
    /\ Dispatched /\ branch = "cursor" /\ planned_strategy = "cursor"

(***************************************************************************)
(* Properties of the raw output of run_extract.                            *)
(***************************************************************************)
\* the files the existence check of run_extract looks for
CheckedParquet == WithSuffix(RawPath(run_id), "parquet")
CheckedCsv == WithSuffix(RawPath(run_id), "csv")

\* C5: when <raw_path>.parquet or <raw_path>.csv exists at the existence check,
\* the call ends there by raising FileExistsError: the config is not loaded, no
\* credential is resolved, no remote call is made, and the raw files, the
\* manifest and pybliometrics.cfg are left as they were.
C5_RefusalStep ==
    (/\ pc = "ex_check"
     /\ \/ raw_dir[CheckedParquet] # <<>>
        \/ raw_dir[CheckedCsv] # <<>>)
    => /\ pc' = "idle"
       /\ result'.status = "raised"
       /\ result'.exc.name = "FileExistsError"
       /\ raised_at' = "ex_check"
       /\ UNCHANGED <<raw_dir, manifest_file, cfg_file>>
       /\ config' = <<>> /\ creds' = <<>> /\ log' = <<>>
       /\ remote_calls' = 0

RawFiles == { name \in RawNames : raw_dir[name] # <<>> }

C6_SingleRawOutput ==
    /\ [](Cardinality(RawFiles) <= 1)
    /\ [][\A name \in RawNames :
             raw_dir[name] # <<>> => raw_dir'[name] = raw_dir[name]]_vars

\* C7: a run writes a raw file only in its persist step, after the remote calls
\* of its strategy have returned, and makes no remote call afterwards; a run that
\* ends by raising before the persist step has written no raw file, and no raw
\* file exists at the paths of its existence check.
C7_WriteStep ==
    /\ raw_dir' # raw_dir => (pc = "ex_persist" /\ remote_calls >= 2)
    /\ remote_calls' > remote_calls => ~raw_written
    /\ raw_written' /\ ~raw_written => pc = "ex_persist"

C7_AbortedRun ==
    (/\ pc = "idle" /\ entry = "run_extract"
     /\ result.status = "raised"
     /\ raised_at \notin {"ex_check", "ex_persist"})
    => /\ ~raw_written
       /\ raw_dir[CheckedParquet] = <<>>
       /\ raw_dir[CheckedCsv] = <<>>

Attempts == { i \in DOMAIN events : events[i].kind = "attempt" }
Sleeps == { i \in DOMAIN events : events[i].kind = "sleep" }
FailedAttempt(i) == events[i].kind = "attempt" /\ ~events[i].ok
CallEnded == pc \in {"rt_done", "idle"}
LastFailed == events # <<>> /\ FailedAttempt(Len(events))

\* the errors the wrapper raises as an actionable RuntimeError
Translated(e) ==
    \/ e.name \in {"Scopus401Error", "Scopus403Error", "Scopus429Error"}
    \/ e.status_code \in {401, 403, 429}
    \/ e.base \in {"Scopus401Error", "Scopus403Error", "Scopus429Error"}

RateLimited(e) == e.name = "Scopus429Error" \/ e.status_code = 429

\* at most `retries` attempts; a sleep of the fixed delay only after a failed
\* attempt and before the next attempt; the first success ends the call and is
\* returned
C8_AttemptsAndSleeps ==
    /\ Cardinality(Attempts) <= retries
    /\ remote_calls = Cardinality(Attempts)
    /\ \A i \in Sleeps :
          /\ events[i].delay = DefaultDelay
          /\ i > 1 /\ FailedAttempt(i - 1)
          /\ i < Len(events) => events[i + 1].kind = "attempt"
          /\ i = Len(events) => (pc = "rt_loop" /\ attempt < retries)
    /\ \A i \in Attempts :
          /\ i < Len(events) => (~events[i].ok /\ events[i + 1].kind = "sleep")
          /\ events[i].ok => (CallEnded /\ rres.status = "returned")
          /\ (~events[i].ok /\ i = Len(events)) => (pc = "rt_sleep" \/ CallEnded)
    /\ (CallEnded /\ rres.status = "returned") =>
          (events # <<>> /\ events[Len(events)].kind = "attempt"
              /\ events[Len(events)].ok)

\* C8 as stated: ..., and when the last attempt has failed the call raises that
\* last error; the call always terminates.
C8_LastErrorItself ==
    (CallEnded /\ LastFailed) => rres = Raised(events[Len(events)].exc, <<>>)

C8_RetryAsStated ==
    /\ [](C8_AttemptsAndSleeps /\ C8_LastErrorItself)
    /\ (pc = "rt_loop" ~> pc = "rt_done")

\* C8 as amended: at most `retries` attempts, sleeps of the fixed delay only
\* between two attempts, the first success returned; when the last attempt has
\* failed the call raises that error itself after `retries` attempts if the
\* error is not one the wrapper translates, and otherwise a RuntimeError whose
\* cause is that error; the call always terminates.
C8_LastErrorOrTranslation ==
    (CallEnded /\ LastFailed) =>
        LET e == events[Len(events)].exc
        IN  IF Translated(e)
            THEN /\ rres.status = "raised"
                 /\ rres.exc.name = "RuntimeError"
                 /\ rres.cause = <<e>>
            ELSE /\ rres = Raised(e, <<>>)
                 /\ Cardinality(Attempts) = retries

C8_Retry ==
    /\ [](C8_AttemptsAndSleeps /\ C8_LastErrorOrTranslation)
    /\ (pc = "rt_loop" ~> pc = "rt_done")

C8_Witness ==
    /\ pc = "idle" /\ entry = "retry_scopus_search"
    /\ retries = DefaultRetries
    /\ Cardinality(Attempts) = retries /\ Cardinality(Sleeps) = retries - 1
    /\ LastFailed /\ ~Translated(events[Len(events)].exc)
    /\ result = Raised(events[Len(events)].exc, <<>>)

\* C9: an attempt that fails with a permanent error (class Scopus401Error or
\* Scopus403Error, or status 401 or 403) is the last event of its call: the
\* call has ended, without a further attempt or a sleep, by raising the
\* actionable RuntimeError for that status, with the error as its cause.
C9_PermanentFailsAtOnce ==
    \A i \in Attempts :
        (FailedAttempt(i) /\ Permanent(events[i].exc)) =>
            /\ i = Len(events)
            /\ CallEnded
            /\ rres.status = "raised"
            /\ rres.exc.name = "RuntimeError"
            /\ rres.exc.message \in
                  { "Unauthorized (401): SCOPUS_API_KEY is invalid or disabled.",
                    "Forbidden (403): access requires INST_TOKEN or an institutional subscription." }
            /\ rres.cause = <<events[i].exc>>

C9_Witness ==
    /\ pc = "idle" /\ entry = "retry_scopus_search"
    /\ retries = DefaultRetries
    /\ Len(events) = 3
    /\ events[3].exc = Exc("HTTPError", 403, "http error", "none")
    /\ result.exc.name = "RuntimeError"

\* C10: an attempt that fails with a rate-limiting error (class Scopus429Error
\* or status 429) while attempts remain is followed by a sleep and a further
\* attempt; the call fails with it only when the retry bound is exhausted.
C10_RateLimitRetried ==
    \A i \in Attempts :
        (/\ FailedAttempt(i) /\ RateLimited(events[i].exc)
         /\ Cardinality({ j \in Attempts : j <= i }) < retries)
        => /\ i = Len(events) => pc = "rt_sleep"
           /\ i < Len(events) => events[i + 1].kind = "sleep"

(***************************************************************************)
(* Properties of run_cursor_with_fallback and of fatal errors.             *)
(***************************************************************************)
CursorCallEnded == pc = "idle" /\ entry = "run_cursor_with_fallback"

\* the step that ends the cursor attempt
C11_CursorStep ==
    (pc = "rt_done" /\ ret = "cursor") =>
        IF rres.status = "returned" /\ rres.handle.results # <<>>
        THEN /\ pc' = "idle"
             /\ result'.status = "returned"
             /\ result'.value.strategy = "cursor"
             /\ result'.value.years = <<>>
             /\ Len(result'.value.records) = Len(rres.handle.results)
        ELSE /\ pc' = "sl_enter"
             /\ result' = result
             /\ remote_calls' = remote_calls

C11_Outcome ==
    /\ hist.cursor = "records" =>
          /\ CursorCallEnded
          /\ result.status = "returned"
          /\ result.value.strategy = "cursor"
          /\ remote_calls = hist.cursor_calls
    /\ (CursorCallEnded /\ hist.cursor \in {"empty", "raised"}
           /\ result.status = "returned") =>
          /\ result.value.strategy = "slicing"
          /\ result.value.years = <<sl.covered>>
          /\ sl.years = <<>>
          /\ Len(sl.frames) = Len(sl.covered)
          /\ remote_calls >= hist.cursor_calls + 2 * Len(sl.covered)
    /\ (CursorCallEnded /\ result.status = "raised") =>
          /\ hist.cursor \in {"empty", "raised"}
          /\ remote_calls > hist.cursor_calls \/ result.exc.name = "ValueError"

\* C11: when the cursor fetch raises or returns no record, its error is dropped
\* and run_slicing is entered, and the call returns the slicing records, the
\* years slicing covered and "slicing"; when the cursor fetch returns a record,
\* the call returns at once with "cursor" and years None, without a slicing call.
C11_CursorFallback == [](C11_Outcome) /\ [][C11_CursorStep]_vars

C11_Witness ==
    /\ CursorCallEnded /\ hist.cursor = "raised"
    /\ result.status = "returned"
    /\ result.value.strategy = "slicing"
    /\ result.value.years = << <<2020, 2021>> >>

\* C12: once a remote call of the running call has failed permanently (401 or
\* 403), the call has ended or is ending with the actionable error: no step of
\* the call other than the raise follows, so no further remote call is made.
C12_PermanentIsFatal ==
    hist.permanent =>
        \/ pc = "rt_done" /\ rres.status = "raised" /\ rres.exc.name = "RuntimeError"
        \/ pc = "idle" /\ result.status = "raised" /\ result.exc.name = "RuntimeError"

\* C13: a non-dry run that takes the slicing branch with start_year and
\* end_year configured and whose remote calls all succeed ends by returning,
\* with the raw table written and the manifest written with strategy_used
\* "slicing".
C13_SlicingRunCompletes ==
    (/\ pc = "idle" /\ entry = "run_extract" /\ ~dry_run
     /\ branch = "slicing"
     /\ config[1].start_year # 0 /\ config[1].end_year # 0
     /\ remote_calls = 1 /\ ~hist.permanent)
    => /\ result.status = "returned"
       /\ raw_written
       /\ manifest_file # <<>>
       /\ manifest_file[1].strategy_used = "slicing"
       /\ ~manifest_file[1].dry_run

(***************************************************************************)
(* Properties of dry runs and of the manifest.                             *)
(***************************************************************************)
DryRunning == entry = "run_extract" /\ dry_run

C14_DryRunState ==
    DryRunning =>
        /\ remote_calls = 0
        /\ ~raw_written
        /\ (pc = "idle" /\ result.status = "returned") =>
              /\ manifest_file # <<>>
              /\ manifest_file[1].n_results_estimated = 0
              /\ manifest_file[1].n_records_downloaded = 0
              /\ manifest_file[1].strategy_used = "dry-run"
              /\ manifest_file[1].dry_run = TRUE

C14_DryRunStep ==
    (DryRunning /\ pc # "idle") => (raw_dir' = raw_dir /\ remote_calls' = 0)

\* C14: a run with dry_run = true makes no remote call and creates or changes
\* no raw file, and when it returns it has written a manifest with
\* n_results_estimated = 0, n_records_downloaded = 0, strategy_used = "dry-run"
\* and dry_run = true.
C14_DryRun == [](C14_DryRunState) /\ [][C14_DryRunStep]_vars

C14_Witness ==
    /\ DryRunning /\ pc = "idle" /\ result.status = "returned"
    /\ manifest_file # <<>> /\ manifest_file[1].strategy_used = "dry-run"
    /\ RawFiles = {}

\* C15: once the manifest of the run id has been written, no later step of any
\* run_extract call for that run id changes its content.
C15_ManifestWrittenOnce ==
    [][manifest_file # <<>> => manifest_file' = manifest_file]_vars

(***************************************************************************)
(* Properties of the credential resolvers, over the files and variables    *)
(* they read (environ) and the (value, source) pairs they return (creds).  *)
(***************************************************************************)
Resolved == creds # <<>>
ApiKey == creds[1].api
InstToken == creds[1].inst

RECURSIVE FirstSecretLine(_)
\* the first line that, stripped, is not blank and does not begin with "#":
\* <<>> when there is none, else <<line>>
FirstSecretLine(lines) ==
    IF lines = <<>> THEN <<>>
    ELSE IF Strip(Head(lines)) = <<>> \/ Head(Strip(Head(lines))) = "#"
         THEN FirstSecretLine(Tail(lines))
    ELSE <<Head(lines)>>

\* the secret of a file: None when the file is missing or has no secret line,
\* else that line up to its first "#", stripped
SecretOf(file) ==
    IF file = <<>> \/ FirstSecretLine(file[1]) = <<>> THEN None
    ELSE Str(Strip(BeforeHash(FirstSecretLine(file[1])[1])))

\* the same, with the whole stripped line as the secret
WholeLineOf(file) ==
    IF file = <<>> \/ FirstSecretLine(file[1]) = <<>> THEN None
    ELSE Str(Strip(FirstSecretLine(file[1])[1]))

Configured(secret, placeholder) == secret # None /\ secret # placeholder
VariableSet(env) == env # <<>> /\ env[1] # <<>>
ValueOf(env) == Str(Strip(env[1]))

ApiFileConfigured == Configured(SecretOf(environ.api_file), "YOUR_SCOPUS_API_KEY_HERE")
ApiDefaultConfigured ==
    Configured(SecretOf(environ.api_default), "YOUR_SCOPUS_API_KEY_HERE")
InstFileConfigured == Configured(SecretOf(environ.inst_file), "YOUR_INST_TOKEN_HERE")
InstDefaultConfigured ==
    Configured(SecretOf(environ.inst_default), "YOUR_INST_TOKEN_HERE")

\* C16: a configured explicit file wins over the primary variable, the primary
\* variable over INSTTOKEN (institutional token only), INSTTOKEN over the
\* default file; the tag returned is that of the source that won, and a value
\* returned is the value of the source the tag names.
C16_ResolutionOrder ==
    Resolved =>
        /\ ApiFileConfigured =>
              ApiKey = [value |-> SecretOf(environ.api_file), source |-> "file"]
        /\ (~ApiFileConfigured /\ VariableSet(environ.api_env)) =>
              /\ ApiKey.source = "env"
              /\ ApiKey.value \in {None, ValueOf(environ.api_env)}
        /\ (~ApiFileConfigured /\ ~VariableSet(environ.api_env) /\ ApiDefaultConfigured) =>
              ApiKey = [value |-> SecretOf(environ.api_default), source |-> "default_file"]
        /\ ApiKey.source \in {"file", "env", "default_file", None}
        /\ InstFileConfigured =>
              InstToken = [value |-> SecretOf(environ.inst_file), source |-> "file"]
        /\ (~InstFileConfigured /\ VariableSet(environ.inst_env)) =>
              /\ InstToken.source = "env"
              /\ InstToken.value \in {None, ValueOf(environ.inst_env)}
        /\ (~InstFileConfigured /\ ~VariableSet(environ.inst_env)
               /\ VariableSet(environ.inst_compat)) =>
              /\ InstToken.source = "env_compat"
              /\ InstToken.value \in {None, ValueOf(environ.inst_compat)}
        /\ (~InstFileConfigured /\ ~VariableSet(environ.inst_env)
               /\ ~VariableSet(environ.inst_compat) /\ InstDefaultConfigured) =>
              InstToken = [value |-> SecretOf(environ.inst_default),
                           source |-> "default_file"]
        /\ InstToken.source \in {"file", "env", "env_compat", "default_file", None}

C16_Witness ==
    /\ Resolved /\ entry = "load_credentials"
    /\ environ.api_env = << <<"ENV_KEY">> >>
    /\ ApiKey = [value |-> "FILE_KEY", source |-> "file"]
    /\ environ.inst_env = <<>> /\ environ.inst_default # <<>>
    /\ InstToken = [value |-> "COMPAT_TOKEN", source |-> "env_compat"]

\* C17 as stated: the secret of an explicit file is exactly its first line
\* that, stripped, is not blank and does not begin with "#"; when that line is
\* the placeholder, or there is none, the file counts as absent.
C17_SecretIsWholeLine ==
    Resolved =>
        /\ Configured(WholeLineOf(environ.api_file), "YOUR_SCOPUS_API_KEY_HERE") =>
              ApiKey = [value |-> WholeLineOf(environ.api_file), source |-> "file"]
        /\ ~Configured(WholeLineOf(environ.api_file), "YOUR_SCOPUS_API_KEY_HERE") =>
              ApiKey.source # "file"
        /\ Configured(WholeLineOf(environ.inst_file), "YOUR_INST_TOKEN_HERE") =>
              InstToken = [value |-> WholeLineOf(environ.inst_file), source |-> "file"]
        /\ ~Configured(WholeLineOf(environ.inst_file), "YOUR_INST_TOKEN_HERE") =>
              InstToken.source # "file"

\* C17 as amended: the secret of a credential file is its first line that,
\* stripped, is not blank and does not begin with "#", cut at its first "#" and
\* stripped; when that is the placeholder, or there is no such line, the file
\* counts as absent and the resolver answers as it does without the file.
C17_SecretIsLineBeforeHash ==
    Resolved =>
        /\ IF ApiFileConfigured
           THEN ApiKey = [value |-> SecretOf(environ.api_file), source |-> "file"]
           ELSE /\ ApiKey.source # "file"
                /\ ApiKey = load_scopus_api_key_with_source(<<>>, environ.api_env,
                                                            environ.api_default)
        /\ IF InstFileConfigured
           THEN InstToken = [value |-> SecretOf(environ.inst_file), source |-> "file"]
           ELSE /\ InstToken.source # "file"
                /\ InstToken = load_scopus_insttoken_with_source(<<>>, environ.inst_env,
                                    environ.inst_compat, environ.inst_default)
        /\ (ApiKey.source = "default_file") =>
              (ApiDefaultConfigured /\ ApiKey.value = SecretOf(environ.api_default))
        /\ (InstToken.source = "default_file") =>
              (InstDefaultConfigured /\ InstToken.value = SecretOf(environ.inst_default))

C17_Witness ==
    /\ Resolved /\ entry = "load_credentials"
    /\ environ.api_file = << << <<" ", "FILE_KEY", " ", "#", "note">> >> >>
    /\ ApiKey = [value |-> "FILE_KEY", source |-> "file"]
    /\ environ.inst_file = OneLine("YOUR_INST_TOKEN_HERE")
    /\ InstToken.source = "env"

\* C18: each resolver returns a non-empty value with a source tag, or
\* (None, None): never an absent value with a tag, so a source without a
\* usable value never keeps a later source from being tried.
C18_ValueWithTagOrNothing ==
    Resolved =>
        /\ \/ ApiKey.value # None /\ ApiKey.value # "" /\ ApiKey.source # None
           \/ ApiKey = [value |-> None, source |-> None]
        /\ \/ InstToken.value # None /\ InstToken.value # "" /\ InstToken.source # None
           \/ InstToken = [value |-> None, source |-> None]
        /\ (ApiKey.value = None) =>
              (~ApiFileConfigured /\ ~ApiDefaultConfigured)
        /\ (InstToken.value = None) =>
              (~InstFileConfigured /\ ~InstDefaultConfigured
                  /\ ~(VariableSet(environ.inst_compat)
                          /\ ValueOf(environ.inst_compat) # ""))

(***************************************************************************)
(* Secrets and the log of a run of run_extract.                            *)
(***************************************************************************)
Secrets(c) == {c.api.value, c.inst.value} \ {None, ""}

LoggedStrings(recs) ==
    UNION { { recs[i].strs[j] : j \in 1..Len(recs[i].strs) } : i \in 1..Len(recs) }

\* two resolutions agree on which secrets are present and where they came from
SamePresenceAndSource(c, d) ==
    /\ Truthy(c.api.value) = Truthy(d.api.value)
    /\ c.api.source = d.api.source
    /\ Truthy(c.inst.value) = Truthy(d.inst.value)
    /\ c.inst.source = d.inst.source

Appended == SubSeq(log', Len(log) + 1, Len(log'))

C19_NoSecretInLog ==
    (entry = "run_extract" /\ creds # <<>>) =>
        LoggedStrings(log) \cap Secrets(creds[1]) = {}

C19_LogStep ==
    (entry = "run_extract" /\ pc \in {"ex_creds", "ex_init"} /\ creds' # <<>>
        /\ Len(log') > Len(log)) =>
        \A other \in CredentialEnvs :
            SamePresenceAndSource(ResolveIn(other), creds'[1]) =>
                SubSeq(Appended, Len(Appended) - 2, Len(Appended))
                    = CredentialLog(ResolveIn(other))

\* C19: no string logged by run_extract or init_pybliometrics is the resolved
\* API key or institutional token, and the records the two log about the
\* credentials are those logged for any other key files and variables with the
\* same presence and source tag of each secret.
C19_LogIndependentOfSecrets == [](C19_NoSecretInLog) /\ [][C19_LogStep]_vars

C19_Witness ==
    /\ entry = "run_extract" /\ pc = "ex_estimate"
    /\ creds # <<>> /\ creds[1].api = [value |-> "SECRET_KEY", source |-> "file"]
    /\ Len(log) >= 7

(***************************************************************************)
(* A run of run_extract without an API key.                                *)
(***************************************************************************)
NoApiKey == entry = "run_extract" /\ creds # <<>> /\ ~Truthy(creds[1].api.value)

AbortedOnCredentials ==
    /\ pc = "idle"
    /\ result.status = "raised"
    /\ result.exc.name = "RuntimeError"
    /\ raised_at = "ex_creds"
    /\ remote_calls = 0
    /\ ~raw_written

\* C20 as stated: a run of run_extract that resolves no API key, dry or not,
\* has aborted with the configuration error, with no remote call made and no
\* raw file written.
C20_NoKeyAborts == NoApiKey => AbortedOnCredentials

C20_NoKeyNoCfgState == (NoApiKey /\ cfg_file = <<>>) => AbortedOnCredentials

C20_NoKeyNoCfgStep ==
    (entry = "run_extract" /\ pc = "ex_creds" /\ creds' # <<>>
        /\ ~Truthy(creds'[1].api.value) /\ cfg_file = <<>>) =>
        (pc' = "idle" /\ UNCHANGED fsVars /\ remote_calls' = 0)

\* C20 as amended: a run of run_extract that resolves no API key and finds no
\* pybliometrics.cfg in the configuration directory, dry or not, aborts with
\* the configuration error, with no remote call made and no raw file, manifest
\* or cfg file written.
C20_NoKeyNoCfgAborts == [](C20_NoKeyNoCfgState) /\ [][C20_NoKeyNoCfgStep]_vars

C20_Witness ==
    /\ NoApiKey /\ dry_run /\ cfg_file = <<>> /\ manifest_file = <<>>
    /\ AbortedOnCredentials

(***************************************************************************)
(* A search config without a query.                                        *)
(***************************************************************************)
MissingQuery == entry = "run_extract" /\ config # <<>> /\ config[1].query = ""

\* C21: a run of run_extract whose search config has no `query` has aborted
\* at the loading of the config, with no remote call made and no raw file or
\* manifest written by the run.
C21_MissingQueryAborts ==
    MissingQuery =>
        /\ pc = "idle"
        /\ result.status = "raised"
        /\ raised_at = "ex_config"
        /\ remote_calls = 0
        /\ ~raw_written

(***************************************************************************)
(* Properties of run_slicing, stated on the calls it has issued (sl.trace) *)
(* and on what it returns.                                                 *)
(***************************************************************************)
Slicing == entry = "run_slicing"
SlicingReturned == Slicing /\ pc = "idle" /\ result.status = "returned"

\* the inclusive range of years the call was asked for
AskedYears ==
    IF sl.start_year # 0 /\ sl.end_year # 0
    THEN { y \in sl.start_year..sl.end_year : TRUE }
    ELSE { y \in 2000..2030 : \E c \in CurrentYears :
                                 c - sl.max_years_back + 1 <= y /\ y <= c }

Probes == { i \in 1..Len(sl.trace) : sl.trace[i].kind = "probe" /\ sl.trace[i].phase = "returned" }
Fetches == { i \in 1..Len(sl.trace) : sl.trace[i].kind = "fetch" /\ sl.trace[i].phase = "returned" }

NonZeroYears == { sl.trace[i].year : i \in { j \in Probes : sl.trace[j].size # 0 } }
ZeroYears == { sl.trace[i].year : i \in { j \in Probes : sl.trace[j].size = 0 } }
FetchedYears == { sl.trace[i].year : i \in { j \in 1..Len(sl.trace) : sl.trace[j].kind = "fetch" } }

RowsOf(df) == { df[i] : i \in 1..Len(df) }
FetchedRows == UNION { RowsOf(sl.trace[i].rows) : i \in Fetches }

Ascending(seq) == \A i \in 1..Len(seq), j \in 1..Len(seq) : i < j => seq[i] < seq[j]

\* C22: when run_slicing returns, every year of the inclusive range has been
\* probed, the covered years are exactly the years whose probe reported a
\* non-zero count, in ascending order, the returned table holds exactly the
\* records fetched for those years, and no year whose probe reported zero was
\* fetched or recorded as covered.
C22_CoveredYears ==
    SlicingReturned =>
        LET covered == result.value.years[1]
        IN  /\ NonZeroYears \cup ZeroYears = AskedYears
            /\ NonZeroYears \cap ZeroYears = {}
            /\ RowsOf(covered) = NonZeroYears
            /\ Ascending(covered)
            /\ FetchedYears = NonZeroYears
            /\ RowsOf(result.value.records) = FetchedRows

C22_Witness ==
    /\ SlicingReturned
    /\ sl.start_year = 2019 /\ sl.end_year = 2021
    /\ ZeroYears = {2019, 2020}
    /\ result.value.years[1] = <<2021>>
    /\ Len(result.value.records) = 2

\* the calls are issued one after the other: each call issued is completed
\* by the next entry of the trace, and nothing else is issued in between
OneCallAtATime ==
    \A i \in 1..Len(sl.trace) :
        IF i % 2 = 1
        THEN /\ sl.trace[i].phase = "issued"
             /\ i < Len(sl.trace) =>
                   /\ sl.trace[i + 1].phase \in {"returned", "raised"}
                   /\ sl.trace[i + 1].year = sl.trace[i].year
                   /\ sl.trace[i + 1].kind = sl.trace[i].kind
        ELSE sl.trace[i].phase \in {"returned", "raised"}

IssuedAt(kind, year) ==
    { i \in 1..Len(sl.trace) :
        sl.trace[i].phase = "issued" /\ sl.trace[i].kind = kind /\ sl.trace[i].year = year }

\* every call for a year comes before every call for a later year
OrderedByYear ==
    \A i \in 1..Len(sl.trace), j \in 1..Len(sl.trace) :
        sl.trace[i].year < sl.trace[j].year => i < j

\* one probe first, and one fetch only after a non-zero probe
ProbeThenFetch ==
    \A y \in { sl.trace[i].year : i \in 1..Len(sl.trace) } :
        /\ Cardinality(IssuedAt("probe", y)) = 1
        /\ Cardinality(IssuedAt("fetch", y)) <= 1
        /\ \A f \in IssuedAt("fetch", y) :
              /\ f >= 3
              /\ sl.trace[f - 1] = Completed(y, "probe", "returned", sl.trace[f - 1].size, <<>>)
              /\ sl.trace[f - 1].size # 0
              /\ sl.trace[f - 2] = Issued(y, "probe")

RECURSIVE BatchesInCallOrder(_)
\* the rows of the completed fetches, in the order of the calls
BatchesInCallOrder(trace) ==
    IF trace = <<>> THEN <<>>
    ELSE IF Head(trace).kind = "fetch" /\ Head(trace).phase = "returned"
         THEN Head(trace).rows \o BatchesInCallOrder(Tail(trace))
    ELSE BatchesInCallOrder(Tail(trace))

\* C26: within run_slicing the retry-wrapped calls are issued one at a time
\* and in the order of the years, each year gets one size probe first and one
\* fetch only after a non-zero probe, at most two calls, and the batches are
\* concatenated in ascending year order.
C26_SequentialByYear ==
    Slicing =>
        /\ OneCallAtATime
        /\ OrderedByYear
        /\ ProbeThenFetch
        /\ Concat(sl.frames) = BatchesInCallOrder(sl.trace)
        /\ Ascending(sl.covered)

C26_Witness ==
    /\ SlicingReturned
    /\ Len(sl.trace) = 10
    /\ sl.covered = <<2019, 2021>>
    /\ Concat(sl.frames) = to_frame(<<2, 3, 1, 2>>)

\* the positions of the rows that are the first of their eid
FirstOfEid(df) == { i \in 1..Len(df) : \A j \in 1..(i - 1) : df[j].eid # df[i].eid }

\* positions pos[1] < pos[2] < ... into df that pick out the rows of kept
PicksOut(df, kept, positions) ==
    \E pos \in [1..Len(kept) -> positions] :
        /\ \A a \in 1..Len(kept), b \in 1..Len(kept) : a < b => pos[a] < pos[b]
        /\ { pos[a] : a \in 1..Len(kept) } = positions
        /\ \A a \in 1..Len(kept) : kept[a] = df[pos[a]]

\* C27: the table run_slicing returns has no two rows with the same eid; the
\* rows it keeps are, for each eid, the first row with it in the ascending-year
\* concatenation of the batches, and they keep the order they have there.
C27_NoDuplicateEid ==
    SlicingReturned =>
        LET kept == result.value.records
            all == BatchesInCallOrder(sl.trace)
        IN  /\ \A a \in 1..Len(kept), b \in 1..Len(kept) :
                  a # b => kept[a].eid # kept[b].eid
            /\ Len(kept) = Cardinality(FirstOfEid(all))
            /\ PicksOut(all, kept, FirstOfEid(all))

C27_Witness ==
    /\ SlicingReturned
    /\ BatchesInCallOrder(sl.trace) = to_frame(<<1, 2, 2, 3>>)
    /\ result.value.records = to_frame(<<1, 2, 3>>)
    /\ sl.covered = <<2020, 2021>>

(***************************************************************************)
(* Properties of the deduplication of the full analysis.                   *)
(***************************************************************************)
FullDone == entry = "run_full_scopus_csv_analysis"

\* the key of a row: which identity it uses and its value
DedupKey(row) ==
    IF row.eid # NaN /\ Strip(row.eid[1]) # <<>>
    THEN <<"identifier", Str(Strip(row.eid[1]))>>
    ELSE IF row.doi # NaN /\ Strip(row.doi[1]) # <<>>
    THEN <<"doi", Str(Lower(Strip(row.doi[1])))>>
    ELSE <<"composite", _norm_text(row.title), ToNumeric(row.year), _first_author(row.authors)>>

FirstOfKey(df) ==
    { i \in 1..Len(df) : \A j \in 1..(i - 1) : DedupKey(df[j]) # DedupKey(df[i]) }

\* C23 as stated: the rows that survive the deduplication are, in input
\* order, the first row of each distinct key among all rows of the input.
C23_FirstRowPerKey ==
    FullDone =>
        /\ Len(fa.df_clean) = Cardinality(FirstOfKey(fa.df))
        /\ PicksOut(fa.df, fa.df_clean, FirstOfKey(fa.df))

\* C23 as amended: the rows that survive the deduplication are, in input
\* order, the first row of each distinct key among the rows of the input whose
\* year is numeric; the key is the identifier if non-empty, else the lowercased
\* DOI if non-empty, else normalized title, year and normalized first author.
C23_FirstRowPerKeyWithYear ==
    FullDone =>
        LET dated == SelectSeq(fa.df, HasYear)
        IN  /\ Len(fa.df_clean) = Cardinality(FirstOfKey(dated))
            /\ PicksOut(dated, fa.df_clean, FirstOfKey(dated))

C23_Witness ==
    /\ FullDone
    /\ Len(fa.df) = 3 /\ Len(fa.df_clean) = 2
    /\ fa.df[1].eid = Cell(<<"1">>) /\ fa.df[1].title = Cell(<<"A">>)
    /\ fa.df[2].eid = Cell(<<"1", " ">>)
    /\ fa.df[3].eid = Cell(<<"2">>)
    /\ fa.df_clean = <<fa.df[1], fa.df[3]>>

(***************************************************************************)
(* The manifest written as JSON and read back.                             *)
(***************************************************************************)
ManifestRead == entry = "write_json" /\ js # NoJson

WrittenNames == [i \in 1..Len(js.text.members) |-> js.text.members[i].name]

\* C24: the dictionary parsed from the JSON written for a manifest has every
\* key of build_manifest, its years_covered is the list of years passed in, or
\* null when None was passed, and the keys are written in sorted order.
C24_ManifestRoundTrip ==
    ManifestRead =>
        /\ js.parsed.py = "dict"
        /\ { "timestamp_utc", "run_id", "query", "database", "n_results_estimated",
             "n_records_downloaded", "strategy_used", "years_covered", "python_version",
             "package_versions", "columns_present", "git_commit" } \subseteq DOMAIN js.parsed.at
        /\ IF js.years_covered.none
           THEN js.parsed.at["years_covered"] = PyNone
           ELSE /\ js.parsed.at["years_covered"].py = "list"
                /\ Len(js.parsed.at["years_covered"].items) = Len(js.years_covered.list)
                /\ \A i \in 1..Len(js.years_covered.list) :
                      js.parsed.at["years_covered"].items[i] = PyInt(js.years_covered.list[i])
        /\ \A i \in 1..Len(WrittenNames), j \in 1..Len(WrittenNames) :
              i < j => StrLess(WrittenNames[i], WrittenNames[j])
        /\ \A k \in DOMAIN js.parsed.at :
              js.manifest[1].at[k].py # "dict" => js.parsed.at[k] = js.manifest[1].at[k]

C24_Witness ==
    /\ ManifestRead
    /\ js.years_covered = [none |-> FALSE, list |-> <<2020, 2021>>]
    /\ js.parsed.at["years_covered"] = PyList(<<PyInt(2020), PyInt(2021)>>)
    /\ WrittenNames[1] = "columns_present" /\ WrittenNames[12] = "years_covered"
    /\ js.manifest[1].order[1] = "timestamp_utc"

(***************************************************************************)
(* Properties of run_clean and run_analyze.                                *)
(***************************************************************************)
CleanedExists == RawExists(cl.processed, CleanPath(run_id))

CleanOutputs == <<cl.processed, cl.analysis, cl.manifest>>

\* C25: a call of run_clean with force = false that finds a cleaned output
\* (.parquet or .csv) for the run_id raises, with the pre-existing-output
\* error once its raw input is found, and leaves every cleaned table, analysis
\* table and the cleaning manifest as they were; a call that changes any of
\* them while a cleaned output exists has force = true.
C25_Step ==
    (entry' = "run_clean" /\ CleanedExists) =>
        /\ ~cl'.force =>
              /\ result'.status = "raised"
              /\ result'.exc.name \in {"FileExistsError", "FileNotFoundError"}
              /\ UNCHANGED CleanOutputs
        /\ (CleanOutputs' # CleanOutputs) => cl'.force

C25_Refused ==
    (entry = "run_clean" /\ result.status = "raised" /\ result.exc.name = "FileExistsError") =>
        (~cl.force /\ CleanedExists)

C30_ReadsLatestClean ==
    (entry = "run_analyze" /\ result.status = "returned" /\ cl.cleaned # <<>>) =>
        cl.analyzed = cl.cleaned

(***************************************************************************)
(* Properties of the size estimation and of the manifest of a non-dry run. *)
(***************************************************************************)
EstimateFailed == pc = "rt_done" /\ ret = "estimate" /\ rres.status = "raised"

LimitRecovery == "Estimate failed due to result limit; proceeding with slicing. Error=%s"

RecoveredEstimate ==
    entry = "run_extract" /\ \E i \in DOMAIN log : log[i].msg = LimitRecovery

\* C28: when the size estimation of a run fails, the run goes on exactly when
\* force_slicing is set and the error is a result-limit error: the estimate is
\* then 5001 and the slicing strategy is selected and dispatched; in every
\* other case the run ends with the estimation error, with no strategy
\* dispatched, no fetch made and no file written.
C28_EstimateStep ==
    EstimateFailed =>
        IF force_slicing /\ rres.exc.message = LimitMessage
        THEN /\ n_results' = 5001
             /\ pc' = "ex_select"
             /\ result' = result
        ELSE /\ pc' = "idle"
             /\ result'.status = "raised" /\ result'.exc = rres.exc
             /\ branch' = "" /\ ~raw_written'
             /\ UNCHANGED <<fsVars, n_results>>

C28_AfterRecovery ==
    RecoveredEstimate =>
        /\ force_slicing /\ n_results = 5001
        /\ Selected => planned_strategy = "slicing"
        /\ Dispatched => branch = "slicing"

C28_EstimateRecovery == [](C28_AfterRecovery) /\ [][C28_EstimateStep]_vars

C28_Witness ==
    /\ RecoveredEstimate /\ Dispatched /\ branch = "slicing"
    /\ n_results = threshold + 1

\* C29: the step of a non-dry run that writes the manifest writes
\* n_records_downloaded equal to the number of rows of the raw table the run
\* persisted, strategy_used equal to the strategy of the branch that produced
\* the rows ("cursor" only from the cursor branch, "single" from the single
\* branch), and years_covered null exactly when that strategy is "single" or
\* "cursor".
C29_ManifestStep ==
    (pc = "ex_manifest" /\ manifest_file' # manifest_file) =>
        LET m == manifest_file'[1]
        IN  /\ ~m.dry_run
            /\ raw_dir[m.output_raw_path] # <<>>
            /\ m.n_records_downloaded = Len(raw_dir[m.output_raw_path][1])
            /\ m.strategy_used = strategy
            /\ m.strategy_used \in {"single", "cursor", "slicing"}
            /\ m.strategy_used = "single" <=> branch = "single"
            /\ m.strategy_used = "cursor" => branch = "cursor"
            /\ m.years_covered.none <=> m.strategy_used \in {"single", "cursor"}

====
